---- MODULE Spec2Model ----
(***************************************************************************)
(* SpeakV: the UDP relay server (src/src/server.rs, run_server) and the    *)
(* client side file reassembly (src/src/app.rs, SpeakVApp::update).        *)
(*                                                                         *)
(* One action per packet arm of run_server's receive loop.  Every server   *)
(* action is the whole loop iteration: the arm, then the liveness sweep    *)
(* (server.rs 747-752), then the membership broadcast (server.rs 754-781). *)
(***************************************************************************)
EXTENDS Naturals, Integers, Sequences, FiniteSets, Bags, TLC

\* ------------------------------------------------------------------ bounds
\* Transport addresses of peers (SocketAddr keys of the clients map).
Peers2 == {"a1", "a2"}
Peers3 == {"a1", "a2", "a3"}
\* Usernames that packets carry.
Names == {"alice", "bob"}
\* Passwords that Register and Login packets carry.
Passwords == {"pw1", "pw2"}
\* Passwords that accounts are registered with.
RegPasswords == {"pw1"}
\* Channel names that JoinChannel and CreateChannel packets carry.
ChanNames == {"Lobby", "AFK", "Dev"}
\* Seconds that pass in one Tick of the clock.
TickSecs == 15
\* Rows the chat_messages table may hold (the table itself is unbounded).
MaxChatRows == 1
\* Rows the private_messages table and the reactions table may hold.
MaxDirectRows == 1
\* Rows the file_messages table may hold.
MaxFileRows == 2
\* Rows the chat_messages and private_messages tables may hold when history is asked for.
MaxHistoryRows == 2
\* Rows the reactions table may hold when history is asked for.
MaxReactionRows == 51
\* Entries the receiving app's message lists may hold.
MaxAppRows == 2
\* Bytes of one chunk; app.rs 1377 has 32 * 1024.
ChunkSize == 2
\* Chunks of the largest file the user picks.
MaxChunks == 3
\* The tasks that calls of NetworkManager::start may spawn.
Tasks == {"t1", "t2"}
\* Samples the capture and playback rings hold; audio.rs 51 has 48000 * 2.
RingCap == 960
\* Samples one audio callback captures.
CaptureChunk == 240
\* Packets a channel or the socket may hold.
MaxQueued == 2
\* Samples each queue holds when the callbacks are taken sample by sample;
\* audio.rs 51 has 48000 * 2.
RingSlots == 3
\* Samples one callback buffer, and one frame, holds.
CallbackLen == 2
\* The values a captured or received sample has.
Samples == {1, 2}
\* Usernames of the sending and of the receiving app.
AppSender == "alice"
AppUser == "bob"

\* --------------------------------------------------------------- constants
\* server.rs 749: sessions idle for 30 s or more are purged.
Timeout == 30
\* server.rs 348: LIMIT 50, the window of a history query.
Window == 50
\* network.rs 97, 116: a frame of 10 ms at 48 kHz.
FrameLen == 480
\* audio.rs 149-150, network.rs 119: unwrap_or(0.0)
Silence == 0
\* app.rs 1377: chunk_size, 32 * 1024
FileChunkBytes == 32768
\* server.rs 131: the receive buffer, [0u8; 4096]
RecvBufLen == 4096
\* The files whose sizes are tried: SizeStep bytes apart, up to MaxSteps steps.
SizeStep == 1013
MaxSteps == 40
\* app.rs 1370: files larger than 10 * 1024 * 1024 bytes are refused.
MaxFileBytes == 10485760

VARIABLES
    clients,        \* server.rs 127: HashMap<SocketAddr, ClientInfo>
    channels,       \* server.rs 128: HashSet<String>, mirrored in table channels
    users,          \* table users (server.rs 59-68), rows in id order
    has_status,     \* whether the users table of users.db has a status column
    chat_messages,  \* table chat_messages (server.rs 69-76), rows in id order
    private_messages,   \* table private_messages (server.rs 80-87)
    reactions,      \* table reactions (server.rs 98-102)
    file_messages,  \* table file_messages (server.rs 88-97)
    has_username,   \* whether the file_messages table of users.db has a username column
    file_reassemblers,  \* server.rs 129: HashMap<Uuid, PendingFile>
    sent,           \* bag of datagrams socket.send_to sent in the last iteration
    last,           \* the datagram the last iteration received
    mute_orders,    \* history: <<address, username>> of the sessions an Admin muted,
                    \* until an Admin unmutes the username; Untracked when not kept
    iter,           \* where the iteration that is taken statement by statement is, and
                    \* the locks the server task holds there
    outgoing,       \* app.rs 1388-1399: the packets the sending app has queued
    pending_files,  \* app.rs 727-734: the receiving app's HashMap<Uuid, PendingFile>
    app_chat,       \* the receiving app's chat_messages (app.rs 765-772)
    app_dms,        \* the receiving app's direct_messages (app.rs 755-763)
    local_history,  \* the sending app's own entries for the files it sent (app.rs 1402-1421)
    is_running,     \* network.rs 28: NetworkManager::is_running
    is_connected,   \* network.rs 29: NetworkManager::is_connected
    can_transmit,   \* network.rs 30: NetworkManager::can_transmit
    pc,             \* where each task that start() spawned is (network.rs 71-175)
    stop_called,    \* stop() has returned and start() was not called since
    captured,       \* samples in the capture ring (input_consumer's occupied_len)
    gate,           \* what step 2 of each task's iteration found (network.rs 113-126)
    outbox,         \* network.rs 61: packets waiting in each task's outgoing_chat_rx
    drain_left,     \* of the packets that waited when the task's drain began, those not yet taken
    rings,          \* audio.rs 51-58: the samples of the three queues, oldest first, and the
                    \* last callback with its buffer: the one it was handed or the one it filled
    wire,           \* datagrams the session's socket.send has sent and not yet delivered
    net_last,       \* what socket.recv of the last receive step returned
    inbox,          \* network.rs 32-33: packets waiting in chat_rx
    remote_len,     \* samples in the playback ring (remote_producer)
    speaking        \* network.rs 35-36: usernames waiting in speaking_users_rx

\* what the arms of the registry leave alone
direct == <<private_messages, reactions>>
files == <<file_messages, has_username, file_reassemblers>>
session == <<is_running, is_connected, can_transmit, pc, stop_called, captured, gate, outbox,
             drain_left, rings, wire, net_last, inbox, remote_len, speaking>>
app == <<outgoing, pending_files, app_chat, app_dms, local_history, session>>
server ==
    <<clients, channels, users, has_status, chat_messages, direct, files, sent, last,
      mute_orders, iter>>

vars == <<server, app>>

NoAddr == "-"
NoPacket == [kind |-> "None"]
Waiting == [from |-> NoAddr, pkt |-> NoPacket]

\* server.rs 134-136: recv_from returns the datagram pkt of the peer addr,
\* and it decodes.
Receive(addr, pkt) ==
    /\ last = Waiting
    /\ last' = [from |-> addr, pkt |-> pkt]

\* ------------------------------------------------------------ persistence
\* bcrypt::hash / bcrypt::verify (server.rs 157, 197): the stored value is
\* not the password; verify accepts exactly the password that was hashed.
Hash(password) == <<"bcrypt", password>>
Verify(password, stored_hash) == stored_hash = Hash(password)

\* Uuid::to_string (server.rs 279) and Uuid::parse_str(..).unwrap_or_default()
\* (server.rs 353): the stored text is not the id; text that is no uuid
\* parses to the nil uuid.
NilUuid == "00000000"
UuidString(id) == <<"uuid", id>>
ParseUuid(text) == IF Len(text) = 2 /\ text[1] = "uuid" THEN text[2] ELSE NilUuid

UserRow(username, password_hash, role) ==
    [username |-> username, password_hash |-> password_hash, role |-> role,
     is_banned |-> FALSE, status |-> "", nick_color |-> "#FFFFFF",
     avatar_url |-> "", bio |-> ""]

\* SELECT ... FROM users WHERE username = ?1 (username is UNIQUE).
UserIdx(username) == {i \in DOMAIN users : users[i].username = username}
HasUser(username) == UserIdx(username) # {}
UserOf(username) == users[CHOOSE i \in UserIdx(username) : TRUE]

\* ---------------------------------------------------------------- sessions
\* Mutant of NewClient: the fresh session has the role Admin.
NewClientAsAdmin(username) ==
    [username |-> username, current_channel |-> "Lobby", last_seen |-> 0,
     is_authenticated |-> FALSE, role |-> "Admin", is_muted |-> FALSE,
     status |-> "", nick_color |-> "#FFFFFF"]
\* server.rs 143-152: the ClientInfo a Handshake inserts
NewClient(username) ==
    [username |-> username, current_channel |-> "Lobby", last_seen |-> 0,
     is_authenticated |-> FALSE, role |-> "User", is_muted |-> FALSE,
     status |-> "", nick_color |-> "#FFFFFF"]

\* Mutant of Insert: a key that is present keeps its value.
InsertIfAbsent(c, addr, info) ==
    [a \in DOMAIN c \cup {addr} |-> IF a \in DOMAIN c THEN c[a] ELSE info]
\* HashMap::insert
Insert(c, addr, info) ==
    [a \in DOMAIN c \cup {addr} |-> IF a = addr THEN info ELSE c[a]]

\* HashMap::retain
Retain(c, keep) == [a \in keep |-> c[a]]

\* ------------------------------------------------------------------ sending
Datagram(to, pkt) == [to |-> to, pkt |-> pkt]
\* one send_to per address of targets
SendAll(targets, pkt) == [d \in {Datagram(a, pkt) : a \in targets} |-> 1]
NoSend == EmptyBag

\* server.rs 763-769: the projection of a session to UserInfo
UserInfo(info) ==
    [username |-> info.username, role |-> info.role, is_muted |-> info.is_muted,
     status |-> info.status, nick_color |-> info.nick_color]

\* Mutant of MemberAddrs: the is_authenticated test of server.rs 762 is lost.
MemberAddrsAnySession(c, chan) ==
    {a \in DOMAIN c : c[a].current_channel = chan}

\* server.rs 760-771: users_in_chan, one UserInfo per pushed session
MemberAddrs(c, chan) ==
    {a \in DOMAIN c : c[a].current_channel = chan /\ c[a].is_authenticated}
UsersInChan(c, chan) ==
    LET S == MemberAddrs(c, chan)
    IN  [u \in {UserInfo(c[a]) : a \in S} |->
            Cardinality({a \in S : UserInfo(c[a]) = u})]

\* server.rs 756-775: the UsersUpdate packet
UsersUpdate(c, chans) ==
    [kind |-> "UsersUpdate", state |-> {<<chan, UsersInChan(c, chan)>> : chan \in chans}]

\* server.rs 747-752: the liveness sweep
Alive(c) == {a \in DOMAIN c : c[a].last_seen < Timeout}

\* Mutant of Finish: the sweep does not raise needs_broadcast.
FinishSweepSilent(c, chans, out, needs_broadcast) ==
    LET kept == Retain(c, Alive(c))
    IN  /\ clients' = kept
        /\ sent' = IF needs_broadcast
                   THEN out (+) SendAll(DOMAIN kept, UsersUpdate(kept, chans))
                   ELSE out

\* server.rs 747-781: what every iteration does after the packet's arm.
\* c is the clients map the arm left, chans the channel set, out the
\* datagrams the arm sent, needs_broadcast the arm's flag.
Finish(c, chans, out, needs_broadcast) ==
    LET kept == Retain(c, Alive(c))
        nb == needs_broadcast \/ DOMAIN kept # DOMAIN c
    IN  /\ clients' = kept
        /\ sent' = IF nb THEN out (+) SendAll(DOMAIN kept, UsersUpdate(kept, chans))
                         ELSE out

\* ------------------------------------------------------------------ actions
\* what recv_from returned when bincode::deserialize fails (server.rs 136)
Malformed == [kind |-> "Malformed"]

\* Mutant of Undecoded: the sweep and its broadcast run for every datagram.
UndecodedButSwept(c, chans) == Finish(c, chans, NoSend, FALSE)
\* server.rs 136, 782: the body of `if let Ok(packet)` is skipped as a whole,
\* the sweep and the broadcast included
Undecoded(c, chans) == clients' = c /\ sent' = NoSend

\* server.rs 134-136, 782-784: a datagram that does not decode
RecvMalformed(addr) ==
    /\ Receive(addr, Malformed)
    /\ Undecoded(clients, channels)
    /\ UNCHANGED <<channels, users, has_status, mute_orders, iter, chat_messages, direct,
                   files, app>>

\* server.rs 141-154
RecvHandshake(addr, username) ==
    /\ Receive(addr, [kind |-> "Handshake", username |-> username])
    /\ Finish(Insert(clients, addr, NewClient(username)), channels, NoSend, TRUE)
    /\ UNCHANGED <<channels, users, has_status, mute_orders, iter, chat_messages, direct,
                   files, app>>

\* Mutant of RoleFor: an off-by-one in the first-account test.
RoleForOffByOne(user_count) == IF user_count <= 1 THEN "Admin" ELSE "User"

\* server.rs 162
RoleFor(user_count) == IF user_count = 0 THEN "Admin" ELSE "User"

AuthResponse(success, message, role, status, nick_color) ==
    [kind |-> "AuthResponse", success |-> success, message |-> message,
     role |-> role, status |-> status, nick_color |-> nick_color]
None == "None"

\* Mutant of UniqueViolation: the username column is not UNIQUE.
UniqueViolationNever(rows, username) == FALSE
\* server.rs 61, 164-167: INSERT INTO users fails when the username is taken
UniqueViolation(rows, username) == \E i \in DOMAIN rows : rows[i].username = username

\* server.rs 155-185
RecvRegister(addr, username, password) ==
    LET ok == ~UniqueViolation(users, username)
        msg == IF ok THEN "Registration successful!" ELSE "Registration failed"
    IN  /\ Receive(addr, [kind |-> "Register", username |-> username, password |-> password])
        /\ users' = IF ok
                    THEN Append(users, UserRow(username, Hash(password), RoleFor(Len(users))))
                    ELSE users
        /\ Finish(clients, channels,
                  SendAll({addr}, AuthResponse(ok, msg, None, None, None)), FALSE)
        /\ UNCHANGED <<channels, has_status, mute_orders, iter, chat_messages, direct, files, app>>

\* server.rs 187-191: the row Login selects.  The statement names the column
\* status, so preparing it fails when the users table has no such column.
LoginRowFound(username) == has_status /\ HasUser(username)

\* Mutant of LoginSuccess: the is_banned test of server.rs 195 is lost.
LoginSuccessIgnoringBan(username, password) ==
    /\ LoginRowFound(username)
    /\ Verify(password, UserOf(username).password_hash)

\* server.rs 193-204
LoginSuccess(username, password) ==
    /\ LoginRowFound(username)
    /\ ~UserOf(username).is_banned
    /\ Verify(password, UserOf(username).password_hash)
LoginMessage(username, password) ==
    IF ~LoginRowFound(username) THEN "User not found"
    ELSE IF UserOf(username).is_banned THEN "You are banned from this server"
    ELSE IF Verify(password, UserOf(username).password_hash) THEN "Login successful!"
    ELSE "Invalid password"

\* server.rs 186-229
RecvLogin(addr, username, password) ==
    LET success == LoginSuccess(username, password)
        row == UserOf(username)
        stamp == success /\ addr \in DOMAIN clients
        c1 == IF stamp
              THEN [clients EXCEPT ![addr] =
                      [@ EXCEPT !.username = username, !.is_authenticated = TRUE,
                                !.role = row.role, !.status = row.status,
                                !.nick_color = row.nick_color, !.last_seen = 0]]
              ELSE clients
        response == IF success
                    THEN AuthResponse(TRUE, LoginMessage(username, password),
                                      row.role, row.status, row.nick_color)
                    ELSE AuthResponse(FALSE, LoginMessage(username, password),
                                      None, None, None)
    IN  /\ Receive(addr, [kind |-> "Login", username |-> username, password |-> password])
        /\ Finish(c1, channels, SendAll({addr}, response), stamp)
        /\ UNCHANGED <<channels, users, has_status, mute_orders, iter, chat_messages, direct,
                       files, app>>

\* server.rs 230-248
RecvUpdateProfile(addr, status, nick_color) ==
    LET honored == addr \in DOMAIN clients /\ clients[addr].is_authenticated
        c1 == IF honored
              THEN [clients EXCEPT ![addr] =
                      [@ EXCEPT !.status = status, !.nick_color = nick_color]]
              ELSE clients
        \* UPDATE users SET status = ?1, ... fails as a whole without the column
        saved == honored /\ has_status
    IN  /\ Receive(addr, [kind |-> "UpdateProfile", status |-> status, nick_color |-> nick_color])
        /\ users' = IF saved
                    THEN [i \in DOMAIN users |->
                            IF users[i].username = clients[addr].username
                            THEN [users[i] EXCEPT !.status = status,
                                                  !.nick_color = nick_color]
                            ELSE users[i]]
                    ELSE users
        /\ Finish(c1, channels, NoSend, honored)
        /\ UNCHANGED <<channels, has_status, mute_orders, iter, chat_messages, direct, files, app>>

\* server.rs 251-256, 267-272: the sender's view, with last_seen refreshed
Touch(c, addr) ==
    IF addr \in DOMAIN c THEN [c EXCEPT ![addr] = [@ EXCEPT !.last_seen = 0]] ELSE c
SenderChannel(c, addr) == IF addr \in DOMAIN c THEN c[addr].current_channel ELSE "Lobby"
\* Mutant of SenderAuthenticated: having a session is enough.
SenderKnown(c, addr) == addr \in DOMAIN c
SenderAuthenticated(c, addr) == addr \in DOMAIN c /\ c[addr].is_authenticated
SenderMuted(c, addr) == addr \in DOMAIN c /\ c[addr].is_muted

\* Mutant of MayRelay: the is_muted test of server.rs 258 and 274 is lost.
MayRelayIgnoringMute(c, addr) == SenderAuthenticated(c, addr)

\* server.rs 258, 274: the relay condition of Audio, TypingStatus, ChatMessage
MayRelay(c, addr) == SenderAuthenticated(c, addr) /\ ~SenderMuted(c, addr)

\* Mutant of ChannelPeers: the client_addr != addr test is lost.
ChannelPeersWithSender(c, addr) ==
    {a \in DOMAIN c : /\ c[a].current_channel = SenderChannel(c, addr)
                      /\ c[a].is_authenticated}

\* server.rs 259-263, 285-289, 608-612: the channel fan-out
ChannelPeers(c, addr) ==
    {a \in DOMAIN c : /\ a # addr
                      /\ c[a].current_channel = SenderChannel(c, addr)
                      /\ c[a].is_authenticated}

\* server.rs 249-265
RecvAudioOrTyping(addr, pkt) ==
    LET out == IF MayRelay(clients, addr)
               THEN SendAll(ChannelPeers(clients, addr), pkt) ELSE NoSend
    IN  /\ Receive(addr, pkt)
        /\ Finish(Touch(clients, addr), channels, out, FALSE)
        /\ UNCHANGED <<channels, users, has_status, mute_orders, iter, chat_messages, direct,
                       files, app>>

\* server.rs 266-291
RecvChatMessage(addr, pkt) ==
    LET relay == MayRelay(clients, addr)
        out == IF relay THEN SendAll(ChannelPeers(clients, addr), pkt) ELSE NoSend
    IN  /\ Receive(addr, pkt)
        /\ chat_messages' =
              IF relay
              THEN Append(chat_messages,
                          [msg_id |-> UuidString(pkt.id), username |-> pkt.username,
                           channel |-> SenderChannel(clients, addr),
                           message |-> pkt.message, timestamp |-> pkt.timestamp])
              ELSE chat_messages
        /\ Finish(Touch(clients, addr), channels, out, FALSE)
        /\ UNCHANGED <<channels, users, has_status, mute_orders, iter, direct, files, app>>

\* no iteration is under way: the task waits in recv_from and holds no lock
Idle == [at |-> "idle", held |-> {}]

\* The iteration that receives a ChatMessage, statement by statement.
\* server.rs 134-138, 267-274: the datagram is read and decoded, the task
\* takes the lock of the session map, and the sender's last_seen is refreshed
ChatBegin(addr, pkt) ==
    /\ iter = Idle
    /\ Receive(addr, pkt)
    /\ clients' = Touch(clients, addr)
    /\ sent' = NoSend
    /\ iter' = [at |-> IF MayRelay(clients, addr) THEN "insert" ELSE "sweep",
                held |-> {"clients"}]
    /\ UNCHANGED <<channels, users, has_status, mute_orders, chat_messages, direct, files, app>>

\* server.rs 276-282: db.lock() and INSERT INTO chat_messages; the guard of
\* db is dropped at the end of the block
ChatInsert ==
    /\ iter.at = "insert"
    /\ chat_messages' =
          Append(chat_messages,
                 [msg_id |-> UuidString(last.pkt.id), username |-> last.pkt.username,
                  channel |-> SenderChannel(clients, last.from),
                  message |-> last.pkt.message, timestamp |-> last.pkt.timestamp])
    /\ iter' = [iter EXCEPT !.at = IF ChannelPeers(clients, last.from) # {} THEN "relay"
                                   ELSE "sweep"]
    /\ UNCHANGED <<clients, channels, users, has_status, mute_orders, direct, files, sent, last,
                   app>>

\* server.rs 285-289: send_to for every peer of the channel
ChatRelay ==
    /\ iter.at = "relay"
    /\ sent' = sent (+) SendAll(ChannelPeers(clients, last.from), last.pkt)
    /\ iter' = [iter EXCEPT !.at = "sweep"]
    /\ UNCHANGED <<clients, channels, users, has_status, mute_orders, chat_messages, direct,
                   files, last, app>>

\* server.rs 747-757: the sweep; when a session went, the task takes the lock
\* of the channel set to build the snapshot
ChatSweep ==
    LET kept == Retain(clients, Alive(clients))
        shrank == DOMAIN kept # DOMAIN clients
    IN  /\ iter.at = "sweep"
        /\ clients' = kept
        /\ iter' = [at |-> IF shrank /\ DOMAIN kept # {} THEN "broadcast" ELSE "unlock",
                    held |-> IF shrank THEN iter.held \cup {"channels"} ELSE iter.held]
        /\ UNCHANGED <<channels, users, has_status, mute_orders, chat_messages, direct, files,
                       sent, last, app>>

\* server.rs 776-780: send_to of the snapshot for every session
ChatBroadcast ==
    /\ iter.at = "broadcast"
    /\ sent' = sent (+) SendAll(DOMAIN clients, UsersUpdate(clients, channels))
    /\ iter' = [iter EXCEPT !.at = "unlock"]
    /\ UNCHANGED <<clients, channels, users, has_status, mute_orders, chat_messages, direct,
                   files, last, app>>

\* server.rs 781-782: the guards go out of scope at the end of the block
ChatUnlock ==
    /\ iter.at = "unlock"
    /\ iter' = Idle
    /\ UNCHANGED <<clients, channels, users, has_status, mute_orders, chat_messages, direct,
                   files, sent, last, app>>

\* server.rs 294-299
\* Mutant of IsAdmin: the role is not looked at.
IsAdminOrUser(c, addr) == addr \in DOMAIN c
IsAdmin(c, addr) == addr \in DOMAIN c /\ c[addr].role = "Admin"

\* Mutant of WithoutUser: only the authenticated sessions of the target go.
WithoutLoggedInUser(c, target) ==
    Retain(c, {a \in DOMAIN c : c[a].username # target \/ ~c[a].is_authenticated})
\* server.rs 304, 313: retain(|_, v| &v.username != target)
WithoutUser(c, target) == Retain(c, {a \in DOMAIN c : c[a].username # target})

\* server.rs 318-322, 327-331
SetMuted(c, target, flag) ==
    [a \in DOMAIN c |-> IF c[a].username = target
                        THEN [c[a] EXCEPT !.is_muted = flag] ELSE c[a]]

\* server.rs 311: UPDATE users SET is_banned = 1 WHERE username = ?1
SetBanned(rows, target) ==
    [i \in DOMAIN rows |-> IF rows[i].username = target
                           THEN [rows[i] EXCEPT !.is_banned = TRUE] ELSE rows[i]]

\* the value of mute_orders in the specifications that keep no history
Untracked == {<<NoAddr, NoAddr>>}

\* server.rs 292-337
RecvAdminAction(addr, target, action) ==
    LET is_admin == IsAdmin(clients, addr)
        c1 == IF ~is_admin THEN clients
              ELSE IF action \in {"Kick", "Ban"} THEN WithoutUser(clients, target)
              ELSE SetMuted(clients, target, action = "Mute")
    IN  /\ Receive(addr, [kind |-> "AdminAction", target |-> target, action |-> action])
        /\ users' = IF is_admin /\ action = "Ban" THEN SetBanned(users, target) ELSE users
        /\ mute_orders' =
              IF mute_orders = Untracked THEN mute_orders
              ELSE IF is_admin /\ action = "Mute"
              THEN mute_orders \cup {<<a, target>> : a \in {x \in DOMAIN clients :
                                                              clients[x].username = target}}
              ELSE IF is_admin /\ action = "Unmute"
              THEN {o \in mute_orders : o[2] # target}
              ELSE mute_orders
        /\ Finish(c1, channels, NoSend, is_admin)
        /\ UNCHANGED <<channels, has_status, iter, chat_messages, direct, files, app>>

\* Mutant of IsNewChannel: the contains test of server.rs 435 is lost.
IsNewChannelAlways(chans, name) == TRUE
\* server.rs 435: !chan_guard.contains(name)
IsNewChannel(chans, name) == name \notin chans

\* Mutant of ChannelExists: the contains test of server.rs 452 is lost.
ChannelExistsAlways(chans, name) == TRUE
\* server.rs 452: chan_guard.contains(name)
ChannelExists(chans, name) == name \in chans

\* server.rs 431-447
RecvCreateChannel(addr, name) ==
    LET created == SenderAuthenticated(clients, addr) /\ IsNewChannel(channels, name)
        chans == IF created THEN channels \cup {name} ELSE channels
    IN  /\ Receive(addr, [kind |-> "CreateChannel", name |-> name])
        /\ channels' = chans
        /\ Finish(clients, chans, NoSend, created)
        /\ UNCHANGED <<users, has_status, mute_orders, iter, chat_messages, direct, files, app>>

\* server.rs 448-460
RecvJoinChannel(addr, name) ==
    LET joined == SenderAuthenticated(clients, addr) /\ ChannelExists(channels, name)
        c1 == IF joined
              THEN [clients EXCEPT ![addr] =
                      [@ EXCEPT !.current_channel = name, !.last_seen = 0]]
              ELSE clients
    IN  /\ Receive(addr, [kind |-> "JoinChannel", name |-> name])
        /\ Finish(c1, channels, NoSend, joined)
        /\ UNCHANGED <<channels, users, has_status, mute_orders, iter, chat_messages, direct,
                       files, app>>

\* server.rs 739-743
RecvPing(addr) ==
    /\ Receive(addr, [kind |-> "Ping"])
    /\ Finish(Touch(clients, addr), channels, NoSend, FALSE)
    /\ UNCHANGED <<channels, users, has_status, mute_orders, iter, chat_messages, direct,
                   files, app>>

\* Mutant of Recipients: the message goes to every session but the sender's.
RecipientsEverybody(c, addr, to) ==
    IF DOMAIN c \ {addr} = {} THEN {{}} ELSE {DOMAIN c \ {addr}}

\* server.rs 474-480, 601-606: iter().find(|(_, info)| info.username == to)
\* yields one of the sessions named to, whichever the map iterates first, or
\* none.  The choices of whom the datagram is sent to:
Recipients(c, addr, to) ==
    LET named == {a \in DOMAIN c : c[a].username = to}
    IN  IF named = {} THEN {{}} ELSE {{a} : a \in named}

\* server.rs 461-483
RecvPrivateMessage(addr, pkt) ==
    LET honored == /\ SenderAuthenticated(clients, addr)
                   /\ clients[addr].username = pkt.from
    IN  /\ Receive(addr, pkt)
        /\ private_messages' =
              IF honored
              THEN Append(private_messages,
                          [msg_id |-> UuidString(pkt.id), sender |-> pkt.from, recipient |-> pkt.to,
                           message |-> pkt.message, timestamp |-> pkt.timestamp])
              ELSE private_messages
        /\ \E targets \in Recipients(clients, addr, pkt.to) :
              Finish(clients, channels,
                     IF honored THEN SendAll(targets, pkt) ELSE NoSend, FALSE)
        /\ UNCHANGED <<channels, users, has_status, mute_orders, iter, chat_messages, reactions,
                       files, app>>

\* Mutant of Everybody: the channel fan-out is used for a global packet.
EverybodyInChannel(c, addr) == ChannelPeers(c, addr) \cup {addr}

\* server.rs 682, 732: clients_guard.keys()
Everybody(c, addr) == DOMAIN c

\* server.rs 669-687
RecvReaction(addr, pkt) ==
    LET honored == /\ SenderAuthenticated(clients, addr)
                   /\ clients[addr].username = pkt.from
    IN  /\ Receive(addr, pkt)
        /\ reactions' =
              IF honored
              THEN Append(reactions, [msg_id |-> UuidString(pkt.msg_id), username |-> pkt.from,
                                      emoji |-> pkt.emoji])
              ELSE reactions
        /\ Finish(clients, channels,
                  IF honored THEN SendAll(Everybody(clients, addr), pkt) ELSE NoSend, FALSE)
        /\ UNCHANGED <<channels, users, has_status, mute_orders, iter, chat_messages,
                       private_messages,
                       files, app>>

ProfileUpdatePacket(username, avatar_url, bio) ==
    [kind |-> "ProfileUpdate", username |-> username, avatar_url |-> avatar_url,
     bio |-> bio]

\* server.rs 712-738
RecvProfileUpdate(addr, pkt) ==
    LET honored == SenderAuthenticated(clients, addr)
        username == clients[addr].username
        update == ProfileUpdatePacket(username, pkt.avatar_url, pkt.bio)
    IN  /\ Receive(addr, pkt)
        /\ users' = IF honored
                    THEN [i \in DOMAIN users |->
                            IF users[i].username = username
                            THEN [users[i] EXCEPT !.avatar_url = pkt.avatar_url,
                                                  !.bio = pkt.bio]
                            ELSE users[i]]
                    ELSE users
        /\ Finish(clients, channels,
                  IF honored THEN SendAll(Everybody(clients, addr), update) ELSE NoSend,
                  FALSE)
        /\ UNCHANGED <<channels, has_status, mute_orders, iter, chat_messages, direct, files, app>>

\* ----------------------------------------------------------- file transfer
\* Option<Vec<u8>>: a slot of PendingFile.chunks is None or Some(data).
NoChunk == <<>>
SomeChunk(data) == <<data>>

\* HashMap::remove
Remove(m, k) == [x \in DOMAIN m \ {k} |-> m[x]]

\* server.rs 589-598, app.rs 728-733: the PendingFile a FileStart creates,
\* slot i of chunks (from 0) held at position i + 1.
NewPendingFile(pkt) ==
    [filename |-> pkt.filename, from |-> pkt.from, to |-> pkt.to,
     is_image |-> pkt.is_image, timestamp |-> pkt.timestamp,
     chunks |-> [i \in 1..pkt.total_chunks |-> NoChunk],
     total_chunks |-> pkt.total_chunks, received_count |-> 0]

\* Mutant of SlotFree: the is_none() test is lost.
SlotFreeIgnoringFilled(pending, chunk_index) ==
    chunk_index < pending.total_chunks

\* server.rs 641, app.rs 737: the test a FileChunk passes to be stored
SlotFree(pending, chunk_index) ==
    /\ chunk_index < pending.total_chunks
    /\ pending.chunks[chunk_index + 1] = NoChunk

\* Mutant of FillSlot: the chunk is stored in arrival order.
FillSlotInArrivalOrder(pending, chunk_index, data) ==
    [pending EXCEPT !.chunks[pending.received_count + 1] = SomeChunk(data),
                    !.received_count = @ + 1]

\* server.rs 642-643, app.rs 738-739
FillSlot(pending, chunk_index, data) ==
    [pending EXCEPT !.chunks[chunk_index + 1] = SomeChunk(data),
                    !.received_count = @ + 1]

\* server.rs 646-649, app.rs 742-745: full_data, the slots in index order
RECURSIVE FullData(_)
FullData(chunks) ==
    IF chunks = <<>> THEN <<>>
    ELSE (IF Head(chunks) = NoChunk THEN <<>> ELSE Head(chunks)[1])
            \o FullData(Tail(chunks))

\* server.rs 600-613: whom a FileStart is relayed to; find returns the first
\* session of that username in the map's iteration order.
FileStartTargets(c, addr, to) ==
    IF to # None
    THEN LET named == {a \in DOMAIN c : c[a].username = to}
         IN  IF named = {} THEN {{}} ELSE {{a} : a \in named}
    ELSE {{a \in DOMAIN c \ {addr} :
             c[a].current_channel = SenderChannel(c, addr) /\ c[a].is_authenticated}}

\* server.rs 579-615
RecvFileStart(addr, pkt) ==
    LET authenticated == SenderAuthenticated(clients, addr)
    IN  /\ Receive(addr, pkt)
        /\ file_reassemblers' =
              IF authenticated
              THEN Insert(file_reassemblers, pkt.id, NewPendingFile(pkt))
              ELSE file_reassemblers
        /\ \E targets \in FileStartTargets(clients, addr, pkt.to) :
              Finish(clients, channels,
                     IF authenticated THEN SendAll(targets, pkt) ELSE NoSend, FALSE)
        /\ UNCHANGED <<channels, users, has_status, mute_orders, iter, chat_messages, direct,
                       file_messages, has_username, app>>

\* server.rs 632-636: whom a FileChunk is relayed to
FileChunkTargets(c, addr) ==
    {a \in DOMAIN c \ {addr} : c[a].is_authenticated}

\* server.rs 651-662: the row of the INSERT INTO file_messages
FileRow(id, pending, channel, full_data) ==
    [msg_id |-> UuidString(id), username |-> pending.from, channel |-> channel,
     recipient |-> pending.to, filename |-> pending.filename, data |-> full_data,
     is_image |-> IF pending.is_image THEN 1 ELSE 0,
     timestamp |-> pending.timestamp]

\* server.rs 616-668.  The INSERT names a username column; on a table
\* without it the statement fails and its error is dropped (let _ =).
RecvFileChunk(addr, pkt) ==
    LET authenticated == SenderAuthenticated(clients, addr)
        known == authenticated /\ pkt.id \in DOMAIN file_reassemblers
        pending == file_reassemblers[pkt.id]
        stores == known /\ SlotFree(pending, pkt.chunk_index)
        filled == FillSlot(pending, pkt.chunk_index, pkt.data)
        complete == stores /\ filled.received_count = filled.total_chunks
        inserts == complete /\ has_username
    IN  /\ inserts => Len(file_messages) < MaxFileRows
        /\ Receive(addr, pkt)
        /\ file_reassemblers' =
              IF complete THEN Remove(file_reassemblers, pkt.id)
              ELSE IF stores THEN Insert(file_reassemblers, pkt.id, filled)
              ELSE file_reassemblers
        /\ file_messages' =
              IF inserts
              THEN Append(file_messages,
                          FileRow(pkt.id, filled, SenderChannel(clients, addr),
                                  FullData(filled.chunks)))
              ELSE file_messages
        /\ Finish(clients, channels,
                  IF authenticated THEN SendAll(FileChunkTargets(clients, addr), pkt)
                                   ELSE NoSend, FALSE)
        /\ UNCHANGED <<channels, users, has_status, mute_orders, iter, chat_messages, direct,
                       has_username, app>>

\* ------------------------------------------------------------------ history
\* String::cmp on the timestamps that packets carry, smallest first; "" is
\* the key of a record without timestamp (server.rs 407).
TimestampOrder == <<"", "11:59", "12:00", "12:01", "12:02">>
TsRank(ts) == CHOOSE i \in DOMAIN TimestampOrder : TimestampOrder[i] = ts

\* server.rs 404-408, 554-559: get_ts; kinds are the arms that have a timestamp
GetTs(p, kinds) == IF p.kind \in kinds THEN p.timestamp ELSE ""

\* Mutant of InsertByTs: the record is appended whatever its timestamp.
InsertAtEnd(sorted, p, kinds) == Append(sorted, p)

\* Vec::sort_by (stable) with the comparison of server.rs 409, 560
InsertByTs(sorted, p, kinds) ==
    LET n == Cardinality({i \in DOMAIN sorted :
                             TsRank(GetTs(sorted[i], kinds)) <= TsRank(GetTs(p, kinds))})
    IN  SubSeq(sorted, 1, n) \o <<p>> \o SubSeq(sorted, n + 1, Len(sorted))
RECURSIVE SortByTs(_, _)
SortByTs(history, kinds) ==
    IF history = <<>> THEN <<>>
    ELSE InsertByTs(SortByTs(SubSeq(history, 1, Len(history) - 1), kinds),
                    history[Len(history)], kinds)

\* ORDER BY id DESC LIMIT n
LastDesc(rows, n) ==
    [i \in 1..(IF Len(rows) < n THEN Len(rows) ELSE n) |-> rows[Len(rows) - i + 1]]

\* rows to packets, in the order of rows
RECURSIVE Map(_, _)
Map(Op(_), rows) ==
    IF rows = <<>> THEN <<>> ELSE <<Op(Head(rows))>> \o Map(Op, Tail(rows))

\* server.rs 352-358, 499-506
ChatOfRow(r) ==
    [kind |-> "ChatMessage", id |-> ParseUuid(r.msg_id), username |-> r.username,
     message |-> r.message, timestamp |-> r.timestamp]
PrivateOfRow(r) ==
    [kind |-> "PrivateMessage", id |-> ParseUuid(r.msg_id), from |-> r.sender,
     to |-> r.recipient, message |-> r.message, timestamp |-> r.timestamp]
\* server.rs 369-378, 519-528
FileOfRow(r) ==
    [kind |-> "FileMessage", id |-> ParseUuid(r.msg_id), from |-> r.username,
     to |-> r.recipient, filename |-> r.filename, data |-> r.data,
     is_image |-> (r.is_image = 1), timestamp |-> r.timestamp]
\* server.rs 391-396, 541-546
ReactionOfRow(r) ==
    [kind |-> "Reaction", msg_id |-> ParseUuid(r.msg_id), from |-> r.username,
     emoji |-> r.emoji]

\* server.rs 341-414: final_history of a RequestChatHistory.  The SELECT on
\* file_messages names the username column; without it prepare fails and the
\* block is skipped.
ChatHistoryOf(channel) ==
    LET chats == SelectSeq(chat_messages, LAMBDA r : r.channel = channel)
        filesIn == SelectSeq(file_messages, LAMBDA r : r.channel = channel)
        shown == IF has_username
                 THEN SelectSeq(filesIn, LAMBDA r : r.recipient = None)
                 ELSE <<>>
        ids == {chats[i].msg_id : i \in DOMAIN chats}
                  \cup {filesIn[i].msg_id : i \in DOMAIN filesIn}
        reacts == SelectSeq(reactions, LAMBDA r : r.msg_id \in ids)
    IN  SortByTs(Map(ChatOfRow, LastDesc(chats, Window))
                    \o Map(FileOfRow, LastDesc(shown, Window))
                    \o Map(ReactionOfRow, reacts),
                 {"ChatMessage", "FileMessage"})

\* server.rs 338-430
RecvRequestChatHistory(addr, channel) ==
    /\ Receive(addr, [kind |-> "RequestChatHistory", channel |-> channel])
    /\ Finish(clients, channels,
              IF SenderAuthenticated(clients, addr)
              THEN SendAll({addr}, [kind |-> "ChatHistory",
                                    history |-> ChatHistoryOf(channel)])
              ELSE NoSend, FALSE)
    /\ UNCHANGED <<channels, users, has_status, mute_orders, iter, chat_messages, direct,
                   files, app>>

\* server.rs 488-564: final_history of a RequestDirectHistory of me for target
DirectHistoryOf(me, target) ==
    LET Between(a, b) == (a = me /\ b = target) \/ (a = target /\ b = me)
        pms == SelectSeq(private_messages, LAMBDA r : Between(r.sender, r.recipient))
        shown == IF has_username
                 THEN SelectSeq(file_messages, LAMBDA r : Between(r.username, r.recipient))
                 ELSE <<>>
        ids == {pms[i].msg_id : i \in DOMAIN pms} \cup {shown[i].msg_id : i \in DOMAIN shown}
        reacts == IF has_username
                  THEN SelectSeq(reactions, LAMBDA r : r.msg_id \in ids)
                  ELSE <<>>
    IN  SortByTs(Map(PrivateOfRow, LastDesc(pms, Window))
                    \o Map(FileOfRow, LastDesc(shown, Window))
                    \o Map(ReactionOfRow, reacts),
                 {"ChatMessage", "PrivateMessage", "FileMessage"})

\* server.rs 484-578
RecvRequestDirectHistory(addr, target) ==
    /\ Receive(addr, [kind |-> "RequestDirectHistory", target |-> target])
    /\ Finish(clients, channels,
              IF SenderAuthenticated(clients, addr)
              THEN SendAll({addr}, [kind |-> "DirectHistory",
                                    history |-> DirectHistoryOf(clients[addr].username,
                                                                target)])
              ELSE NoSend, FALSE)
    /\ UNCHANGED <<channels, users, has_status, mute_orders, iter, chat_messages, direct,
                   files, app>>

\* ------------------------------------------------------- the sending app
\* app.rs 1378: total_chunks
TotalChunks(data) == (Len(data) + ChunkSize - 1) \div ChunkSize

\* app.rs 1393: data.chunks(chunk_size), chunk idx from 0
ChunkOf(data, idx) ==
    SubSeq(data, idx * ChunkSize + 1,
           IF (idx + 1) * ChunkSize < Len(data) THEN (idx + 1) * ChunkSize ELSE Len(data))

\* app.rs 1381-1389
StartPacketOf(data, to) ==
    [kind |-> "FileStart", id |-> "f1", from |-> AppSender, to |-> to,
     filename |-> "a.txt", total_chunks |-> TotalChunks(data), is_image |-> FALSE,
     timestamp |-> "12:02"]

\* app.rs 1393-1399
ChunkPacketsOf(data) ==
    {[kind |-> "FileChunk", id |-> "f1", chunk_index |-> idx, data |-> ChunkOf(data, idx)] :
        idx \in 0..(TotalChunks(data) - 1)}

\* app.rs 1368-1422: the user picks a file of the bytes data while the DM
\* target is to.  The packets are handed to the socket, which delivers each
\* of them in any order and any number of times.
AppSendFile(data, to) ==
    /\ outgoing = {}
    /\ Len(data) <= MaxFileBytes
    /\ outgoing' = {StartPacketOf(data, to)} \cup ChunkPacketsOf(data)
    /\ local_history' =
          Append(local_history,
                 [id |-> "f1", username |-> "You", to |-> to, timestamp |-> "12:02",
                  file_data |-> <<"a.txt", data, FALSE>>])
    /\ UNCHANGED <<server, pending_files, app_chat, app_dms, session>>

\* ----------------------------------------------------- the receiving app
\* app.rs 755-772: the entry a completed transfer pushes
FileEntry(id, pending, full_data) ==
    [id |-> id, username |-> pending.from, timestamp |-> pending.timestamp,
     file_data |-> <<pending.filename, full_data, pending.is_image>>]

\* HashMap::entry(k).or_default().push(v)
PushTo(m, k, v) ==
    [x \in DOMAIN m \cup {k} |->
        IF x = k THEN Append(IF k \in DOMAIN m THEN m[k] ELSE <<>>, v) ELSE m[x]]

\* app.rs 691-693: decrypt_bytes and from_utf8 of the stored bytes; the text
\* is not the bytes.
DecryptedText(message) == <<"text", message>>

\* app.rs 694-701, 704-711: the entry a record of a ChatHistory pushes
EntryOfRecord(p) ==
    IF p.kind = "ChatMessage"
    THEN [id |-> p.id, username |-> p.username, message |-> DecryptedText(p.message),
          timestamp |-> p.timestamp, file_data |-> None, reactions |-> <<>>]
    ELSE [id |-> p.id, username |-> p.from, message |-> <<"Sent a file: ", p.filename>>,
          timestamp |-> p.timestamp, file_data |-> <<p.filename, p.data, p.is_image>>,
          reactions |-> <<>>]

\* app.rs 714-721: the first entry of that id gets the reaction, if there is one
React(msgs, p) ==
    LET hits == {i \in DOMAIN msgs : msgs[i].id = p.msg_id}
    IN  IF hits = {} THEN msgs
        ELSE LET i == CHOOSE x \in hits : \A y \in hits : x <= y
             IN  [msgs EXCEPT ![i].reactions = PushTo(@, p.emoji, p.from)]

\* app.rs 689-724: the list after clear() and the records of history in order
RECURSIVE Replay(_)
Replay(history) ==
    IF history = <<>> THEN <<>>
    ELSE LET msgs == Replay(SubSeq(history, 1, Len(history) - 1))
             p == history[Len(history)]
         IN  IF p.kind \in {"ChatMessage", "FileMessage"} THEN Append(msgs, EntryOfRecord(p))
             ELSE IF p.kind = "Reaction" THEN React(msgs, p)
             ELSE msgs

\* app.rs 688-726: the app takes a ChatHistory from its inbox
AppChatHistory(pkt) ==
    /\ app_chat' = Replay(pkt.history)
    /\ UNCHANGED <<server, outgoing, pending_files, app_dms, local_history, session>>

\* app.rs 727-734
AppFileStart(pkt) ==
    /\ pending_files' = Insert(pending_files, pkt.id, NewPendingFile(pkt))
    /\ UNCHANGED <<server, outgoing, app_chat, app_dms, local_history, session>>

\* app.rs 735-777
AppFileChunk(pkt) ==
    LET known == pkt.id \in DOMAIN pending_files
        pending == pending_files[pkt.id]
        stores == known /\ SlotFree(pending, pkt.chunk_index)
        filled == FillSlot(pending, pkt.chunk_index, pkt.data)
        complete == stores /\ filled.received_count = filled.total_chunks
        entry == FileEntry(pkt.id, filled, FullData(filled.chunks))
        other == IF filled.from = AppUser THEN filled.to ELSE filled.from
        rows == Len(app_chat)
                + Cardinality(UNION {{<<k, i>> : i \in DOMAIN app_dms[k]} : k \in DOMAIN app_dms})
    IN  /\ complete => rows < MaxAppRows
        /\ pending_files' =
              IF complete THEN Remove(pending_files, pkt.id)
              ELSE IF stores THEN Insert(pending_files, pkt.id, filled)
              ELSE pending_files
        /\ app_dms' = IF complete /\ filled.to # None
                      THEN PushTo(app_dms, other, entry) ELSE app_dms
        /\ app_chat' = IF complete /\ filled.to = None
                       THEN Append(app_chat, entry) ELSE app_chat
        /\ UNCHANGED <<server, outgoing, local_history, session>>

\* ------------------------------------------- the sizes of the file packets
\* Vec<u8> of n bytes, as the chunking sees it: only the length counts
Bytes(n) == <<"bytes", n>>

\* app.rs 1378: total_chunks of a file of len bytes
TotalChunksOfLen(len) == (len + FileChunkBytes - 1) \div FileChunkBytes

\* app.rs 1393: the length of chunk idx of data.chunks(chunk_size)
ChunkLen(len, idx) ==
    IF (idx + 1) * FileChunkBytes < len THEN FileChunkBytes
    ELSE len - idx * FileChunkBytes

\* app.rs 1381-1389
SizedStartPacket(len, to) ==
    [kind |-> "FileStart", id |-> "f1", from |-> AppSender, to |-> to,
     filename |-> "a.txt", total_chunks |-> TotalChunksOfLen(len), is_image |-> FALSE,
     timestamp |-> "12:02"]

\* app.rs 1393-1399
SizedChunkPackets(len) ==
    {[kind |-> "FileChunk", id |-> "f1", chunk_index |-> idx,
      data |-> Bytes(ChunkLen(len, idx))] : idx \in 0..(TotalChunksOfLen(len) - 1)}

\* bincode::serialize (network.rs 107) with its default options: a String is
\* its length in 8 bytes and its bytes, an Option one byte and the value
StringLen(text) == 8 + Len(text)
OptionLen(to) == IF to = None THEN 1 ELSE 1 + StringLen(to)

\* bincode::serialize of a file packet: the variant in 4 bytes, the Uuid as 16
\* bytes behind a length of 8, usize and lengths in 8 bytes, bool in one byte
EncodedLen(pkt) ==
    IF pkt.kind = "FileChunk"
    THEN 4 + 24 + 8 + 8 + pkt.data[2]
    ELSE 4 + 24 + StringLen(pkt.from) + OptionLen(pkt.to) + StringLen(pkt.filename)
         + 8 + 1 + StringLen(pkt.timestamp)

\* app.rs 1368-1422 for a file of len bytes: the packets queued are those of
\* AppSendFile with chunks of chunk_size bytes
AppSendSized(len, to) ==
    /\ len <= MaxFileBytes
    /\ outgoing' = {SizedStartPacket(len, to)} \cup SizedChunkPackets(len)
    /\ local_history' =
          Append(local_history,
                 [id |-> "f1", username |-> "You", to |-> to, timestamp |-> "12:02",
                  file_data |-> <<"a.txt", Bytes(len), FALSE>>])
    /\ UNCHANGED <<server, pending_files, app_chat, app_dms, session>>

\* ------------------------------------------------- the client session
NoTask == "-"
\* network.rs 113: has_audio is false and nothing was popped or cleared
NoFrame == "none"
\* network.rs 169: the sleep won the select, no datagram was read
NoDatagram == <<"none", None>>
\* a datagram that bincode::deserialize rejects (network.rs 141)
Garbage == <<"bytes", None>>
\* network.rs 107, 133: bincode::serialize of a packet
Encoded(p) == <<"bincode", p>>
\* network.rs 141: bincode::deserialize of the bytes read
Decoded(d) == IF d[1] = "bincode" THEN d[2] ELSE NoPacket
\* the rest of the session's state, for the steps that touch only the flags
SessionData ==
    <<can_transmit, captured, gate, outbox, drain_left, rings, wire, net_last, inbox, remote_len,
      speaking>>
Goto(t, label) == pc' = [pc EXCEPT ![t] = label]

\* network.rs 56-71: start() spawns the task and returns
StartSession(t) ==
    /\ pc[t] = "none"
    /\ Goto(t, "spawned")
    /\ stop_called' = FALSE
    /\ UNCHANGED <<server, outgoing, pending_files, app_chat, app_dms, local_history,
                   is_running, is_connected, SessionData>>

\* network.rs 72-91: the address does not parse, or bind or connect fails
ConnectFails(t) ==
    /\ pc[t] = "spawned"
    /\ Goto(t, "done")
    /\ UNCHANGED <<server, outgoing, pending_files, app_chat, app_dms, local_history,
                   is_running, is_connected, stop_called, SessionData>>

\* network.rs 93
SetConnected(t) ==
    /\ pc[t] = "spawned"
    /\ is_connected' = TRUE
    /\ Goto(t, "connected")
    /\ UNCHANGED <<server, outgoing, pending_files, app_chat, app_dms, local_history,
                   is_running, stop_called, SessionData>>

\* network.rs 94
SetRunning(t) ==
    /\ pc[t] = "connected"
    /\ is_running' = TRUE
    /\ Goto(t, "top")
    /\ UNCHANGED <<server, outgoing, pending_files, app_chat, app_dms, local_history,
                   is_connected, stop_called, SessionData>>

\* network.rs 101-103: the check at the top of the loop; when it passes, the
\* drain of network.rs 106 begins with what waits in the queue now
LoopTop(t) ==
    /\ pc[t] = "top"
    /\ Goto(t, IF is_running THEN "chat" ELSE "exited")
    /\ drain_left' = [drain_left EXCEPT ![t] = IF is_running THEN Len(outbox[t]) ELSE 0]
    /\ UNCHANGED rings
    /\ UNCHANGED <<server, outgoing, pending_files, app_chat, app_dms, local_history,
                   is_running, is_connected, stop_called, can_transmit, captured, gate,
                   outbox, wire, net_last, inbox, remote_len, speaking>>

\* network.rs 173-174: after the loop
Disconnected(t) ==
    /\ pc[t] = "exited"
    /\ is_connected' = FALSE
    /\ Goto(t, "done")
    /\ UNCHANGED <<server, outgoing, pending_files, app_chat, app_dms, local_history,
                   is_running, stop_called, SessionData>>

\* network.rs 178-182
StopSession ==
    /\ is_running' = FALSE
    /\ stop_called' = TRUE
    /\ UNCHANGED <<server, outgoing, pending_files, app_chat, app_dms, local_history,
                   is_connected, pc, SessionData>>

\* ------------------------------------------------- packets the peers send
AudioPacket(u) == [kind |-> "Audio", username |-> u, data |-> "frame"]
TypingPacket(u) == [kind |-> "TypingStatus", username |-> u, is_typing |-> TRUE]
ChatPacket(u) ==
    [kind |-> "ChatMessage", id |-> "m1", username |-> u, message |-> "hi",
     timestamp |-> "12:00"]
AdminActions == {"Kick", "Ban", "Mute", "Unmute"}
PrivatePacket(from, to) ==
    [kind |-> "PrivateMessage", id |-> "m2", from |-> from, to |-> to,
     message |-> "psst", timestamp |-> "12:01"]
ReactionPacket(from) ==
    [kind |-> "Reaction", msg_id |-> "m1", emoji |-> "+1", from |-> from]

\* The files the user picks: every length up to MaxChunks full chunks, the
\* byte at position i being i.
Payloads == {[i \in 1..n |-> i % 256] : n \in 0..(MaxChunks * ChunkSize)}
\* A FileChunk of the transfer whose index no transfer has.
StrayChunk ==
    [kind |-> "FileChunk", id |-> "f1", chunk_index |-> MaxChunks, data |-> <<0>>]

FileStartPacket(from, to, total_chunks) ==
    [kind |-> "FileStart", id |-> "f1", from |-> from, to |-> to,
     filename |-> "a.txt", total_chunks |-> total_chunks, is_image |-> FALSE,
     timestamp |-> "12:02"]
FileChunkPacket(chunk_index, data) ==
    [kind |-> "FileChunk", id |-> "f1", chunk_index |-> chunk_index, data |-> data]

\* Chat and private messages of several ids and timestamps, not sent in the
\* order of their timestamps.
ChatPacketAt(u, id, timestamp) ==
    [kind |-> "ChatMessage", id |-> id, username |-> u, message |-> "hi",
     timestamp |-> timestamp]
HistoryChats ==
    {ChatPacketAt("alice", "m1", "12:01"), ChatPacketAt("alice", "m2", "12:00"),
     ChatPacketAt("alice", "m3", "12:01")}
PrivatePacketAt(from, to, id, timestamp) ==
    [kind |-> "PrivateMessage", id |-> id, from |-> from, to |-> to,
     message |-> "psst", timestamp |-> timestamp]
HistoryPrivates ==
    {PrivatePacketAt("alice", "bob", "m4", "12:02"),
     PrivatePacketAt("alice", "bob", "m5", "11:59")}

\* server.rs 463, 671: the sender is authenticated and is the `from` it names
Honored(c, addr, from) == SenderAuthenticated(c, addr) /\ c[addr].username = from
\* The table is unbounded; a packet that would add a row to it is received
\* only while it holds fewer than max rows.
HasRoom(table, max, inserts) == inserts => Len(table) < max

\* The clock: secs seconds pass while the server waits in recv_from.
Tick(secs) ==
    /\ last = Waiting
    /\ \E a \in DOMAIN clients : clients[a].last_seen < Timeout
    /\ clients' = [a \in DOMAIN clients |->
                    [clients[a] EXCEPT !.last_seen =
                        IF @ + secs > Timeout THEN Timeout ELSE @ + secs]]
    /\ UNCHANGED <<channels, users, has_status, mute_orders, iter, chat_messages, direct, files,
                   sent, last, app>>

\* server.rs 133: the loop is back at recv_from; what the finished iteration
\* received and sent is over.
Loop ==
    /\ last # Waiting
    /\ last' = Waiting
    /\ sent' = EmptyBag
    /\ UNCHANGED <<clients, channels, users, has_status, mute_orders, iter, chat_messages, direct,
                   files, app>>

\* Mutant of DefaultChannels: Lobby is not inserted.
DefaultChannelsWithoutLobby == {"AFK"}
\* server.rs 106-107, 111-123: the channels inserted at start-up and loaded
DefaultChannels == {"Lobby", "AFK"}

\* server.rs 55-133: the state once run_server has opened users.db and bound
\* the socket.  CREATE TABLE IF NOT EXISTS keeps the tables of a users.db that
\* is already there, so the columns of users are those of lines 59-68 (no
\* status column) or those of the file that was found.
Start ==
    /\ clients = <<>>
    /\ channels = DefaultChannels
    /\ users = <<>>
    /\ has_status \in BOOLEAN
    /\ iter = Idle
    /\ chat_messages = <<>>
    /\ private_messages = <<>>
    /\ reactions = <<>>
    /\ file_messages = <<>>
    /\ file_reassemblers = <<>>
    /\ outgoing = {}
    /\ pending_files = <<>>
    /\ app_chat = <<>>
    /\ app_dms = <<>>
    /\ local_history = <<>>
    /\ sent = EmptyBag
    /\ last = Waiting
    /\ is_running = FALSE
    /\ is_connected = FALSE
    /\ can_transmit = FALSE
    /\ pc = [t \in Tasks |-> "none"]
    /\ stop_called = FALSE
    /\ captured = 0
    /\ gate = [t \in Tasks |-> NoFrame]
    /\ outbox = [t \in Tasks |-> <<>>]
    /\ drain_left = [t \in Tasks |-> 0]
    /\ rings = [input |-> <<>>, local |-> <<>>, remote |-> <<>>,
                op |-> [kind |-> "none", data |-> <<>>]]
    /\ wire = <<>>
    /\ net_last = [task |-> NoTask, dgram |-> NoDatagram]
    /\ inbox = <<>>
    /\ remote_len = 0
    /\ speaking = <<>>

\* file_messages as server.rs 88-97 creates it: no username column.
Init == Start /\ has_username = FALSE /\ mute_orders = Untracked

\* file_messages as created, or as a users.db that was already there has it.
InitFiles == Start /\ has_username \in BOOLEAN /\ mute_orders = Untracked

\* As Init, and the history of the Admin's mutes is kept.
InitMute == Start /\ has_username = FALSE /\ mute_orders = {}

\* The packets the peers of the environments below send.
VoiceAndTyping == {AudioPacket("alice"), TypingPacket("alice")}
ProfilePackets == {ProfileUpdatePacket("", "a.png", "hello")}
OneChunkStarts == {FileStartPacket("alice", to, 1) : to \in {None, "bob"}}
OneChunk == {FileChunkPacket(0, <<1>>)}
TwoChunkStarts == {FileStartPacket("alice", None, 2)}
TwoChunks == {FileChunkPacket(chunk_index, <<1>>) : chunk_index \in {0, 1}}

\* The registry: sessions, accounts, channels, moderation, channel relay.
Next ==
    \/ \E addr \in Peers2, username \in Names : RecvHandshake(addr, username)
    \/ \E addr \in Peers2, username \in Names, password \in RegPasswords :
          RecvRegister(addr, username, password)
    \/ \E addr \in Peers2, username \in Names, password \in Passwords :
          RecvLogin(addr, username, password)
    \/ \E addr \in Peers2, target \in Names, action \in AdminActions :
          RecvAdminAction(addr, target, action)
    \/ \E addr \in Peers2, name \in ChanNames : RecvCreateChannel(addr, name)
    \/ \E addr \in Peers2, name \in ChanNames : RecvJoinChannel(addr, name)
    \/ \E addr \in Peers2 : RecvPing(addr)
    \/ Tick(TickSecs)
    \/ Loop

Spec == Init /\ [][Next]_vars

\* Channel relay among three peers.
NextRelay ==
    \/ \E addr \in Peers3, username \in Names : RecvHandshake(addr, username)
    \/ \E addr \in Peers3, username \in Names, password \in RegPasswords :
          RecvRegister(addr, username, password)
    \/ \E addr \in Peers3, username \in Names, password \in RegPasswords :
          RecvLogin(addr, username, password)
    \/ \E addr \in Peers3, pkt \in VoiceAndTyping :
          RecvAudioOrTyping(addr, pkt)
    \/ \E addr \in Peers3 :
          /\ HasRoom(chat_messages, MaxChatRows, MayRelay(clients, addr))
          /\ RecvChatMessage(addr, ChatPacket("alice"))
    \/ \E addr \in Peers3, target \in Names, action \in {"Mute", "Unmute"} :
          RecvAdminAction(addr, target, action)
    \/ \E addr \in Peers3 : RecvJoinChannel(addr, "AFK")
    \/ Tick(Timeout)
    \/ Loop

SpecRelay == Init /\ [][NextRelay]_vars

\* Two peers that log in, talk and chat, and an Admin that mutes and unmutes.
NextMute ==
    \/ \E addr \in Peers2, username \in Names : RecvHandshake(addr, username)
    \/ \E addr \in Peers2, username \in Names, password \in RegPasswords :
          RecvRegister(addr, username, password)
    \/ \E addr \in Peers2, username \in Names, password \in RegPasswords :
          RecvLogin(addr, username, password)
    \/ \E addr \in Peers2, pkt \in VoiceAndTyping :
          RecvAudioOrTyping(addr, pkt)
    \/ \E addr \in Peers2 :
          /\ HasRoom(chat_messages, MaxChatRows, MayRelay(clients, addr))
          /\ RecvChatMessage(addr, ChatPacket("alice"))
    \/ \E addr \in Peers2, target \in Names, action \in {"Mute", "Unmute"} :
          RecvAdminAction(addr, target, action)
    \/ Tick(Timeout)
    \/ Loop

SpecMute == InitMute /\ [][NextMute]_vars

\* Two peers that log in and chat; the iteration of a ChatMessage is taken
\* statement by statement.
NextLocks ==
    \/ \E addr \in Peers2, username \in Names : iter = Idle /\ RecvHandshake(addr, username)
    \/ \E addr \in Peers2, username \in Names, password \in RegPasswords :
          iter = Idle /\ RecvRegister(addr, username, password)
    \/ \E addr \in Peers2, username \in Names, password \in RegPasswords :
          iter = Idle /\ RecvLogin(addr, username, password)
    \/ \E addr \in Peers2 :
          /\ HasRoom(chat_messages, MaxChatRows, MayRelay(clients, addr))
          /\ ChatBegin(addr, ChatPacket("alice"))
    \/ ChatInsert
    \/ ChatRelay
    \/ ChatSweep
    \/ ChatBroadcast
    \/ ChatUnlock
    \/ iter = Idle /\ Tick(Timeout)
    \/ iter = Idle /\ Loop

SpecLocks == Init /\ [][NextLocks]_vars
\* Direct messages among three peers.
NextDirect ==
    \/ \E addr \in Peers3, username \in Names : RecvHandshake(addr, username)
    \/ \E addr \in Peers3, username \in Names, password \in RegPasswords :
          RecvRegister(addr, username, password)
    \/ \E addr \in Peers3, username \in Names, password \in RegPasswords :
          RecvLogin(addr, username, password)
    \/ \E addr \in Peers3 : RecvJoinChannel(addr, "AFK")
    \/ \E addr \in Peers3, from \in Names, to \in Names :
          /\ HasRoom(private_messages, MaxDirectRows, Honored(clients, addr, from))
          /\ RecvPrivateMessage(addr, PrivatePacket(from, to))
    \/ Tick(Timeout)
    \/ Loop

SpecDirect == Init /\ [][NextDirect]_vars

\* Packets of global visibility among three peers.
NextGlobal ==
    \/ \E addr \in Peers3, username \in Names : RecvHandshake(addr, username)
    \/ \E addr \in Peers3, username \in Names, password \in RegPasswords :
          RecvRegister(addr, username, password)
    \/ \E addr \in Peers3, username \in Names, password \in RegPasswords :
          RecvLogin(addr, username, password)
    \/ \E addr \in Peers3 : RecvJoinChannel(addr, "AFK")
    \/ \E addr \in Peers3, from \in Names :
          /\ HasRoom(reactions, MaxDirectRows, Honored(clients, addr, from))
          /\ RecvReaction(addr, ReactionPacket(from))
    \/ \E addr \in Peers3, pkt \in ProfilePackets : RecvProfileUpdate(addr, pkt)
    \/ Tick(Timeout)
    \/ Loop

SpecGlobal == Init /\ [][NextGlobal]_vars

\* File relay among three peers: a file of one chunk, to the channel or to bob.
NextFileRelay ==
    \/ \E addr \in Peers3, username \in Names : RecvHandshake(addr, username)
    \/ \E addr \in Peers3, username \in Names, password \in RegPasswords :
          RecvRegister(addr, username, password)
    \/ \E addr \in Peers3, username \in Names, password \in RegPasswords :
          RecvLogin(addr, username, password)
    \/ \E addr \in Peers3 : RecvJoinChannel(addr, "AFK")
    \/ \E addr \in Peers3, pkt \in OneChunkStarts : RecvFileStart(addr, pkt)
    \/ \E addr \in Peers3, pkt \in OneChunk : RecvFileChunk(addr, pkt)
    \/ Tick(Timeout)
    \/ Loop

SpecFileRelay == Init /\ [][NextFileRelay]_vars

\* One file from the app of alice at a1, through the server and to the app of
\* bob.
NextTransfer ==
    \/ RecvHandshake("a1", AppSender)
    \/ \E password \in RegPasswords : RecvRegister("a1", AppSender, password)
    \/ \E password \in RegPasswords : RecvLogin("a1", AppSender, password)
    \/ \E data \in Payloads, to \in {None, AppUser} : AppSendFile(data, to)
    \/ \E pkt \in {q \in outgoing : q.kind = "FileStart"} : RecvFileStart("a1", pkt)
    \/ \E pkt \in {q \in outgoing : q.kind = "FileChunk"} \cup {StrayChunk} :
          RecvFileChunk("a1", pkt)
    \/ \E pkt \in {q \in outgoing : q.kind = "FileStart"} : AppFileStart(pkt)
    \/ \E pkt \in {q \in outgoing : q.kind = "FileChunk"} \cup {StrayChunk} :
          AppFileChunk(pkt)
    \/ Tick(Timeout)
    \/ Loop

SpecTransfer == InitFiles /\ [][NextTransfer]_vars

\* History of a channel and of a pair, asked for by the session at a1.
NextHistory ==
    \/ RecvHandshake("a1", "alice")
    \/ \E password \in RegPasswords : RecvRegister("a1", "alice", password)
    \/ \E password \in RegPasswords : RecvLogin("a1", "alice", password)
    \/ \E pkt \in HistoryChats :
          /\ HasRoom(chat_messages, MaxHistoryRows, MayRelay(clients, "a1"))
          /\ RecvChatMessage("a1", pkt)
    \/ \E pkt \in HistoryPrivates :
          /\ HasRoom(private_messages, MaxHistoryRows, Honored(clients, "a1", pkt.from))
          /\ RecvPrivateMessage("a1", pkt)
    \/ /\ HasRoom(reactions, MaxReactionRows, Honored(clients, "a1", "alice"))
       /\ RecvReaction("a1", ReactionPacket("alice"))
    \/ \E channel \in {"Lobby", "AFK"} : RecvRequestChatHistory("a1", channel)
    \/ \E target \in Names : RecvRequestDirectHistory("a1", target)
    \/ Loop

SpecHistory == Init /\ [][NextHistory]_vars

\* The app at a1 asks for the history of Lobby and replays the response.
NextReplay ==
    \/ RecvHandshake("a1", "alice")
    \/ \E password \in RegPasswords : RecvRegister("a1", "alice", password)
    \/ \E password \in RegPasswords : RecvLogin("a1", "alice", password)
    \/ \E pkt \in HistoryChats :
          /\ HasRoom(chat_messages, MaxHistoryRows, MayRelay(clients, "a1"))
          /\ RecvChatMessage("a1", pkt)
    \/ /\ HasRoom(reactions, MaxHistoryRows, Honored(clients, "a1", "alice"))
       /\ RecvReaction("a1", ReactionPacket("alice"))
    \/ RecvRequestChatHistory("a1", "Lobby")
    \/ \E d \in {e \in BagToSet(sent) : e.to = "a1" /\ e.pkt.kind = "ChatHistory"} :
          AppChatHistory(d.pkt)
    \/ Loop

SpecReplay == Init /\ [][NextReplay]_vars

\* The relay-only packets, from two peers with and without a login.
NextGate ==
    \/ \E addr \in Peers2, username \in Names : RecvHandshake(addr, username)
    \/ \E addr \in Peers2, username \in Names, password \in RegPasswords :
          RecvRegister(addr, username, password)
    \/ \E addr \in Peers2, username \in Names, password \in RegPasswords :
          RecvLogin(addr, username, password)
    \/ \E addr \in Peers2, pkt \in VoiceAndTyping :
          RecvAudioOrTyping(addr, pkt)
    \/ \E addr \in Peers2 :
          /\ HasRoom(chat_messages, MaxChatRows, MayRelay(clients, addr))
          /\ RecvChatMessage(addr, ChatPacket("alice"))
    \/ \E addr \in Peers2, pkt \in TwoChunkStarts : RecvFileStart(addr, pkt)
    \/ \E addr \in Peers2, pkt \in TwoChunks : RecvFileChunk(addr, pkt)
    \/ Loop

SpecGate == InitFiles /\ [][NextGate]_vars

\* ------------------------------------------------- the session's loop
ServerAndApp == <<server, outgoing, pending_files, app_chat, app_dms, local_history>>

\* network.rs 105-110: every packet waiting in outgoing_chat_rx is sent; the
\* whole drain, when the app queues nothing while it runs
SendChat(t) ==
    /\ pc[t] = "chat"
    /\ wire' = wire \o Map(Encoded, outbox[t])
    /\ outbox' = [outbox EXCEPT ![t] = <<>>]
    /\ drain_left' = [drain_left EXCEPT ![t] = 0]
    /\ UNCHANGED rings
    /\ Goto(t, "audio")
    /\ UNCHANGED <<ServerAndApp, is_running, is_connected, can_transmit, stop_called, gate,
                   captured, net_last, inbox, remote_len, speaking>>

\* network.rs 106-109: one turn of `while let Ok(packet) = try_recv()`: the
\* oldest waiting packet is taken and sent
DrainOne(t) ==
    /\ pc[t] = "chat"
    /\ outbox[t] # <<>>
    /\ wire' = Append(wire, Encoded(Head(outbox[t])))
    /\ outbox' = [outbox EXCEPT ![t] = Tail(@)]
    /\ drain_left' = [drain_left EXCEPT ![t] = IF @ > 0 THEN @ - 1 ELSE 0]
    /\ UNCHANGED rings
    /\ UNCHANGED <<ServerAndApp, is_running, is_connected, can_transmit, pc, stop_called, gate,
                   captured, net_last, inbox, remote_len, speaking>>

\* Mutant of DrainDone: the loop may end while packets wait.
DrainDoneAnyTime(queue) == TRUE
\* network.rs 106: try_recv returns Err when the queue is empty
DrainDone(queue) == queue = <<>>

\* network.rs 106, 110-113: try_recv fails and the loop ends; step 2 is next
DrainEnd(t) ==
    /\ pc[t] = "chat"
    /\ DrainDone(outbox[t])
    /\ Goto(t, "audio")
    /\ UNCHANGED <<ServerAndApp, is_running, is_connected, can_transmit, stop_called, gate,
                   captured, outbox, drain_left, rings, wire, net_last, inbox, remote_len,
                   speaking>>

\* Mutant of HasAudio: can_transmit is not looked at.
HasAudioUngated(occupied_len, permitted) == occupied_len >= FrameLen
\* network.rs 116-121: has_audio of the iteration
HasAudio(occupied_len, permitted) == occupied_len >= FrameLen /\ permitted

\* network.rs 113-126: a frame is popped, or the ring is cleared, or nothing
AudioGate(t) ==
    /\ pc[t] = "audio"
    /\ IF HasAudio(captured, can_transmit)
       THEN /\ captured' = captured - FrameLen
            /\ gate' = [gate EXCEPT ![t] = "frame"]
            /\ Goto(t, "emit")
       ELSE /\ captured' = IF captured >= FrameLen THEN 0 ELSE captured
            /\ gate' = [gate EXCEPT ![t] = IF captured >= FrameLen THEN "cleared"
                                           ELSE NoFrame]
            /\ Goto(t, "recv")
    /\ UNCHANGED <<ServerAndApp, is_running, is_connected, can_transmit, stop_called,
                   outbox, drain_left, rings, wire, net_last, inbox, remote_len, speaking>>

\* network.rs 128-136: has_audio, so the frame is sent
EmitAudio(t) ==
    /\ pc[t] = "emit"
    /\ wire' = Append(wire, Encoded(AudioPacket(AppSender)))
    /\ Goto(t, "recv")
    /\ UNCHANGED <<ServerAndApp, is_running, is_connected, can_transmit, stop_called, gate,
                   captured, outbox, drain_left, rings, net_last, inbox, remote_len, speaking>>

\* network.rs 162: the kinds that go to the inbox
Forwarded == {"ChatMessage", "UsersUpdate", "TypingStatus"}

\* network.rs 156-159: try_push of every sample of a frame
Pushed(len) == IF len + FrameLen <= RingCap THEN len + FrameLen ELSE RingCap

\* network.rs 138-170: one datagram is read, or the sleep of 1 ms ends
Recv(t, d) ==
    LET packet == Decoded(d)
    IN  /\ pc[t] = "recv"
        /\ net_last' = [task |-> t, dgram |-> d]
        /\ remote_len' = IF packet.kind = "Audio" THEN Pushed(remote_len) ELSE remote_len
        /\ speaking' = IF packet.kind = "Audio" THEN Append(speaking, packet.username)
                       ELSE speaking
        /\ inbox' = IF packet.kind \in Forwarded THEN Append(inbox, packet) ELSE inbox
        /\ gate' = [gate EXCEPT ![t] = NoFrame]
        /\ Goto(t, "top")
        /\ UNCHANGED <<ServerAndApp, is_running, is_connected, can_transmit, stop_called,
                       captured, outbox, drain_left, rings, wire>>

\* app.rs 1668, 1678, 1695, 1702, 1717: push to talk, voice activation, mute
SetCanTransmit(b) ==
    /\ can_transmit' = b
    /\ UNCHANGED <<ServerAndApp, is_running, is_connected, pc, stop_called, gate, captured,
                   outbox, drain_left, rings, wire, net_last, inbox, remote_len, speaking>>

\* audio.rs 125-127: the input callback pushes its samples, while there is room
Capture ==
    /\ captured' = IF captured + CaptureChunk <= RingCap THEN captured + CaptureChunk
                   ELSE RingCap
    /\ UNCHANGED <<ServerAndApp, is_running, is_connected, can_transmit, pc, stop_called, gate,
                   outbox, drain_left, rings, wire, net_last, inbox, remote_len, speaking>>

\* audio.rs 148-152: the output callback pops its samples, while there are some
Playback ==
    /\ remote_len > 0
    /\ remote_len' = IF remote_len >= CaptureChunk THEN remote_len - CaptureChunk ELSE 0
    /\ UNCHANGED <<ServerAndApp, is_running, is_connected, can_transmit, pc, stop_called, gate,
                   captured, outbox, drain_left, rings, wire, net_last, inbox, speaking>>

\* ---------------------------------------- the queues, sample by sample
\* Mutant of TryPush: a full queue gives up its oldest sample.
TryPushOverwriting(ring, sample) ==
    IF Len(ring) < RingSlots THEN Append(ring, sample) ELSE Append(Tail(ring), sample)
\* audio.rs 126, 128, network.rs 158: `let _ = prod.try_push(sample)`; try_push
\* of a full queue returns Err and the caller drops the sample
TryPush(ring, sample) ==
    IF Len(ring) < RingSlots THEN Append(ring, sample) ELSE ring

\* audio.rs 124-130, network.rs 157-159: for &sample in data { try_push }
RECURSIVE PushAll(_, _)
PushAll(ring, data) ==
    IF data = <<>> THEN ring ELSE PushAll(TryPush(ring, Head(data)), Tail(data))

\* audio.rs 149-150, network.rs 119: try_pop().unwrap_or(0.0)
PopOr(ring) == IF ring = <<>> THEN Silence ELSE Head(ring)
Rest(ring) == IF ring = <<>> THEN ring ELSE Tail(ring)
\* the queue after n pops
RECURSIVE PopN(_, _)
PopN(ring, n) == IF n = 0 THEN ring ELSE PopN(Rest(ring), n - 1)
\* the values n pops yield
RECURSIVE PoppedN(_, _)
PoppedN(ring, n) == IF n = 0 THEN <<>> ELSE <<PopOr(ring)>> \o PoppedN(Rest(ring), n - 1)

\* the buffers a callback may be handed
Buffers == [1..CallbackLen -> Samples]
SessionButRings ==
    <<is_running, is_connected, can_transmit, pc, stop_called, captured, gate, outbox,
      drain_left, wire, net_last, inbox, remote_len, speaking>>

\* audio.rs 110-140: the input callback; nothing is pushed when the input is
\* muted, and the local queue is fed only under self_listen
InputCallback(data, muted, self_listen) ==
    /\ rings' = IF muted
                THEN [rings EXCEPT !.op = [kind |-> "input muted", data |-> <<>>]]
                ELSE [rings EXCEPT !.input = PushAll(@, data),
                                   !.local = IF self_listen THEN PushAll(@, data) ELSE @,
                                   !.op = [kind |-> IF self_listen THEN "input and local"
                                                    ELSE "input",
                                           data |-> data]]
    /\ UNCHANGED <<ServerAndApp, SessionButRings>>

\* audio.rs 142-156: the output callback; every sample of the buffer is the
\* sum of one pop of the local and one pop of the remote queue
OutputCallback(muted) ==
    /\ rings' = IF muted
                THEN [rings EXCEPT
                        !.op = [kind |-> "output muted",
                                data |-> [i \in 1..CallbackLen |-> Silence]]]
                ELSE [rings EXCEPT
                        !.local = PopN(@, CallbackLen),
                        !.remote = PopN(@, CallbackLen),
                        !.op = [kind |-> "output",
                                data |-> [i \in 1..CallbackLen |->
                                            PoppedN(rings.local, CallbackLen)[i]
                                            + PoppedN(rings.remote, CallbackLen)[i]]]]
    /\ UNCHANGED <<ServerAndApp, SessionButRings>>

\* network.rs 146-159: the samples of a received Audio packet are pushed
RemotePush(data) ==
    /\ rings' = [rings EXCEPT !.remote = PushAll(@, data),
                              !.op = [kind |-> "remote", data |-> data]]
    /\ UNCHANGED <<ServerAndApp, SessionButRings>>

\* network.rs 113-126: with a frame or more in the input queue, the frame is
\* popped when transmitting is permitted and the queue is cleared when not
FramePop(permitted) ==
    /\ rings' = IF Len(rings.input) < CallbackLen
                THEN [rings EXCEPT !.op = [kind |-> "no frame", data |-> <<>>]]
                ELSE IF permitted
                THEN [rings EXCEPT !.input = PopN(@, CallbackLen),
                                   !.op = [kind |-> "frame",
                                           data |-> PoppedN(rings.input, CallbackLen)]]
                ELSE [rings EXCEPT !.input = <<>>,
                                   !.op = [kind |-> "cleared", data |-> <<>>]]
    /\ UNCHANGED <<ServerAndApp, SessionButRings>>

\* app.rs 1464: the app hands a packet to the session
AppQueue(t, pkt) ==
    /\ outbox' = [outbox EXCEPT ![t] = Append(@, pkt)]
    /\ UNCHANGED <<ServerAndApp, is_running, is_connected, can_transmit, pc, stop_called, gate,
                   captured, drain_left, rings, wire, net_last, inbox, remote_len, speaking>>

\* the network takes the oldest datagram the session sent
WireDeliver ==
    /\ wire # <<>>
    /\ wire' = Tail(wire)
    /\ UNCHANGED <<ServerAndApp, is_running, is_connected, can_transmit, pc, stop_called, gate,
                   captured, outbox, drain_left, rings, net_last, inbox, remote_len, speaking>>

\* app.rs 511-527: the entry a ChatMessage of the inbox pushes
EntryOfChat(p) ==
    [id |-> p.id, username |-> p.username, message |-> DecryptedText(p.message),
     timestamp |-> p.timestamp, file_data |-> None, reactions |-> <<>>]

\* app.rs 509-511: the entries the ChatMessage packets of a queue push, in order
RECURSIVE ChatEntries(_)
ChatEntries(queue) ==
    IF queue = <<>> THEN <<>>
    ELSE (IF Head(queue).kind = "ChatMessage" THEN <<EntryOfChat(Head(queue))>> ELSE <<>>)
         \o ChatEntries(Tail(queue))

\* app.rs 509-800: the frame takes every packet waiting in the inbox; of what
\* UsersUpdate and TypingStatus change (participants, channels, typing_users)
\* nothing is part of this state
AppPoll ==
    /\ inbox # <<>>
    /\ inbox' = <<>>
    /\ app_chat' = app_chat \o ChatEntries(inbox)
    /\ UNCHANGED <<server, outgoing, pending_files, app_dms, local_history,
                   is_running, is_connected, can_transmit, pc, stop_called, gate, captured,
                   outbox, drain_left, rings, wire, net_last, remote_len, speaking>>

\* app.rs 807-809: the frame takes every username waiting in speaking_users_rx
AppSpeaking ==
    /\ speaking # <<>>
    /\ speaking' = <<>>
    /\ UNCHANGED <<ServerAndApp, is_running, is_connected, can_transmit, pc, stop_called, gate,
                   captured, outbox, drain_left, rings, wire, net_last, inbox, remote_len>>

\* Two clicks on Connect and any number on Disconnect, as the button of
\* app.rs 985-1009 allows them: stop() when the session is seen connected,
\* start() when it is not. Nothing arrives.
NextSession ==
    \/ \E t \in Tasks : ~is_connected /\ StartSession(t)
    \/ is_connected /\ StopSession
    \/ \E t \in Tasks : ConnectFails(t)
    \/ \E t \in Tasks : SetConnected(t)
    \/ \E t \in Tasks : SetRunning(t)
    \/ \E t \in Tasks : LoopTop(t)
    \/ \E t \in Tasks : SendChat(t)
    \/ \E t \in Tasks : AudioGate(t)
    \/ \E t \in Tasks : Len(wire) < MaxQueued /\ EmitAudio(t)
    \/ \E t \in Tasks : Recv(t, NoDatagram)
    \/ \E t \in Tasks : Disconnected(t)
    \/ \E b \in BOOLEAN : SetCanTransmit(b)
    \/ Capture
    \/ WireDeliver

SpecSession == Init /\ [][NextSession]_vars

\* What the server may send to the session at a1: bob's chat message, typing
\* status and audio, a snapshot, the reply to a Login, and bytes that are no
\* packet.
Inbound ==
    {Encoded(ChatPacket(AppUser)), Encoded(TypingPacket(AppUser)),
     Encoded(UsersUpdate(<<>>, {"Lobby"})),
     Encoded(AuthResponse(TRUE, "Login successful", "User", None, None)),
     Encoded(AudioPacket(AppUser)), Garbage}

\* One session that sends chat and listens, and the frames of the app that
\* empty its queues.
NextInbox ==
    \/ ~is_connected /\ StartSession("t1")
    \/ is_connected /\ StopSession
    \/ ConnectFails("t1")
    \/ SetConnected("t1")
    \/ SetRunning("t1")
    \/ LoopTop("t1")
    \/ Len(outbox["t1"]) < MaxQueued /\ AppQueue("t1", ChatPacket(AppSender))
    \/ Len(wire) + Len(outbox["t1"]) <= MaxQueued /\ SendChat("t1")
    \/ WireDeliver
    \/ AudioGate("t1")
    \/ \E d \in Inbound \cup {NoDatagram} :
          /\ Len(inbox) < MaxQueued
          /\ Len(speaking) < MaxQueued
          /\ Recv("t1", d)
    \/ Disconnected("t1")
    \/ Len(app_chat) + Len(inbox) <= MaxAppRows /\ AppPoll
    \/ AppSpeaking
    \/ Playback

SpecInbox == Init /\ [][NextInbox]_vars

\* what the app queues while it talks: a chat message and a typing status
Outbound == {ChatPacket(AppSender), TypingPacket(AppSender)}

\* One session whose user types and talks: the app queues packets at any
\* time, the drain takes them one by one, and frames are captured and sent.
NextDrain ==
    \/ ~is_connected /\ StartSession("t1")
    \/ is_connected /\ StopSession
    \/ ConnectFails("t1")
    \/ SetConnected("t1")
    \/ SetRunning("t1")
    \/ LoopTop("t1")
    \/ \E pkt \in Outbound : Len(outbox["t1"]) < MaxQueued /\ AppQueue("t1", pkt)
    \/ Len(wire) < MaxQueued /\ DrainOne("t1")
    \/ DrainEnd("t1")
    \/ AudioGate("t1")
    \/ Len(wire) < MaxQueued /\ EmitAudio("t1")
    \/ Recv("t1", NoDatagram)
    \/ Disconnected("t1")
    \/ \E b \in BOOLEAN : SetCanTransmit(b)
    \/ Capture
    \/ WireDeliver

SpecDrain == Init /\ [][NextDrain]_vars

\* The audio callbacks and the session's pushes and pops, in any order.
NextRings ==
    \/ \E data \in Buffers, muted \in BOOLEAN, self_listen \in BOOLEAN :
          InputCallback(data, muted, self_listen)
    \/ \E muted \in BOOLEAN : OutputCallback(muted)
    \/ \E data \in Buffers : RemotePush(data)
    \/ \E permitted \in BOOLEAN : FramePop(permitted)

SpecRings == Init /\ [][NextRings]_vars

\* The sending app alone: the user picks one file after another.
FileLens == {k * SizeStep : k \in 0..MaxSteps}
NextSizes ==
    \E len \in FileLens, to \in {None, AppUser} :
       Len(local_history) < MaxAppRows /\ AppSendSized(len, to)

SpecSizes == Init /\ [][NextSizes]_vars

\* Two peers that log in, chat, create a channel and send a file of two
\* chunks, and datagrams that do not decode.
NextDecode ==
    \/ \E addr \in Peers2 : RecvHandshake(addr, "alice")
    \/ \E addr \in Peers2, password \in RegPasswords : RecvRegister(addr, "alice", password)
    \/ \E addr \in Peers2, password \in RegPasswords : RecvLogin(addr, "alice", password)
    \/ \E addr \in Peers2 : RecvCreateChannel(addr, "Games")
    \/ \E addr \in Peers2 :
          /\ HasRoom(chat_messages, MaxChatRows, MayRelay(clients, addr))
          /\ RecvChatMessage(addr, ChatPacket("alice"))
    \/ \E pkt \in TwoChunkStarts : RecvFileStart("a1", pkt)
    \/ \E pkt \in TwoChunks : RecvFileChunk("a1", pkt)
    \/ \E addr \in Peers2 : RecvMalformed(addr)
    \/ Tick(Timeout)
    \/ Loop

SpecDecode == InitFiles /\ [][NextDecode]_vars

\* ===================================================================
\* Properties
\* ===================================================================
Sent == BagToSet(sent)
Snapshots == {d \in Sent : d.pkt.kind = "UsersUpdate"}
BannedIn(rows, username) ==
    \E i \in DOMAIN rows : rows[i].username = username /\ rows[i].is_banned
IsBanned(username) == BannedIn(users, username)
\* how many datagrams carrying pkt the iteration sent to the address a
SentTo(bag, a, pkt) == CopiesIn(Datagram(a, pkt), bag)

\* C1: every UsersUpdate the server sends has exactly one entry per channel
\* of the channel set; the member list of an entry holds one UserInfo per
\* session that is authenticated and in that channel when it is sent, and
\* nothing else; no unauthenticated session and no banned account is listed.
C1_SnapshotIsExact ==
    \A d \in Snapshots :
        /\ {e[1] : e \in d.pkt.state} = channels
        /\ \A chan \in channels : Cardinality({e \in d.pkt.state : e[1] = chan}) = 1
        /\ \A e \in d.pkt.state :
              LET members == {a \in DOMAIN clients :
                                 /\ clients[a].is_authenticated
                                 /\ clients[a].current_channel = e[1]}
                  listed == BagToSet(e[2]) \cup {UserInfo(clients[a]) : a \in DOMAIN clients}
              IN  /\ \A u \in listed :
                        CopiesIn(u, e[2]) =
                            Cardinality({a \in members : UserInfo(clients[a]) = u})
                  /\ \A u \in BagToSet(e[2]) : ~IsBanned(u.username)

\* C1 witness: a snapshot lists a member while another session is
\* unauthenticated and some account is banned.
C1_Witness ==
    /\ \E d \in Snapshots : \E e \in d.pkt.state : e[2] # EmptyBag
    /\ \E a \in DOMAIN clients : ~clients[a].is_authenticated
    /\ \E u \in Names : IsBanned(u)

RelayKinds == {"Audio", "TypingStatus", "ChatMessage"}

\* C2: an Audio, TypingStatus or ChatMessage packet from an authenticated,
\* unmuted session is forwarded once to every other session that is
\* authenticated and in the sender's channel, and to no other address.
C2_ChannelRelayIsScoped ==
    [][ ( /\ last'.pkt.kind \in RelayKinds
          /\ last'.from \in DOMAIN clients
          /\ clients[last'.from].is_authenticated
          /\ ~clients[last'.from].is_muted )
        => \A a \in Peers3 :
              SentTo(sent', a, last'.pkt) =
                 IF /\ a \in DOMAIN clients
                    /\ a # last'.from
                    /\ clients[a].is_authenticated
                    /\ clients[a].current_channel = clients[last'.from].current_channel
                 THEN 1 ELSE 0 ]_vars

\* C2 witness: a relayed packet reached one session and skipped another
\* authenticated session, which is in another channel.
C2_Witness ==
    /\ last.pkt.kind \in RelayKinds
    /\ \E a \in DOMAIN clients : SentTo(sent, a, last.pkt) = 1
    /\ \E a \in DOMAIN clients \ {last.from} :
          /\ SentTo(sent, a, last.pkt) = 0
          /\ clients[a].is_authenticated

\* C3: while a session is muted its Audio and ChatMessage packets are
\* relayed to nobody, and an authenticated muted session is still listed,
\* with the mute flag set, under its channel in every snapshot.
C3_MutedIsSilentButListed ==
    [][ /\ ( /\ last'.pkt.kind \in {"Audio", "ChatMessage"}
             /\ last'.from \in DOMAIN clients
             /\ clients[last'.from].is_muted )
           => \A d \in BagToSet(sent') : d.pkt # last'.pkt
        /\ \A d \in BagToSet(sent') : d.pkt.kind = "UsersUpdate" =>
              \A a \in DOMAIN clients' :
                 (clients'[a].is_authenticated /\ clients'[a].is_muted) =>
                    \E e \in d.pkt.state :
                       /\ e[1] = clients'[a].current_channel
                       /\ \E u \in BagToSet(e[2]) :
                             u.username = clients'[a].username /\ u.is_muted ]_vars

\* C3 witness: a muted, authenticated session sent a ChatMessage, nobody
\* received it, and the snapshot of the same iteration (a stale session was
\* swept) lists the sender as muted.
C3_Witness ==
    /\ last.pkt.kind = "ChatMessage"
    /\ last.from \in DOMAIN clients
    /\ clients[last.from].is_muted /\ clients[last.from].is_authenticated
    /\ \A d \in Sent : d.pkt # last.pkt
    /\ \E d \in Snapshots : \E e \in d.pkt.state : \E u \in BagToSet(e[2]) :
          u.username = clients[last.from].username /\ u.is_muted

\* C4: a banned account stays banned; a Login for it is answered with
\* success = false only and changes no session; no session is ever
\* authenticated under a banned account.
C4_BannedNeverLogsIn ==
    [][ /\ \A u \in Names : IsBanned(u) => BannedIn(users', u)
        /\ \A a \in DOMAIN clients' :
              clients'[a].is_authenticated => ~BannedIn(users', clients'[a].username)
        /\ (last'.pkt.kind = "Login" /\ IsBanned(last'.pkt.username)) =>
              /\ \A d \in BagToSet(sent') :
                    d.pkt.kind = "AuthResponse" => ~d.pkt.success
              /\ \E d \in BagToSet(sent') :
                    d.to = last'.from /\ d.pkt.kind = "AuthResponse"
              /\ \A a \in DOMAIN clients' : clients'[a] = clients[a] ]_vars

\* C4 witness: a Login with the correct password of a banned account, sent
\* from an address that has a session, was processed.
C4_Witness ==
    /\ last.pkt.kind = "Login"
    /\ has_status
    /\ IsBanned(last.pkt.username)
    /\ Verify(last.pkt.password, UserOf(last.pkt.username).password_hash)
    /\ last.from \in DOMAIN clients

\* C5: the first row of users has role Admin, every later row role User.
C5_FirstAccountIsAdmin ==
    \A i \in DOMAIN users : users[i].role = IF i = 1 THEN "Admin" ELSE "User"

\* C5 witness: a second account was registered.
C5_Witness ==
    /\ Len(users) >= 2
    /\ last.pkt.kind = "Register"

\* C6: a PrivateMessage from an authenticated session whose from field is
\* its username is forwarded once, to one session named as the recipient,
\* or to nobody when no session bears that name; nobody else receives it;
\* in both cases one row is appended to private_messages.
C6_PrivateMessageToRecipientOnly ==
    [][ ( /\ last'.pkt.kind = "PrivateMessage"
          /\ last'.from \in DOMAIN clients
          /\ clients[last'.from].is_authenticated
          /\ clients[last'.from].username = last'.pkt.from )
        => LET named == {a \in DOMAIN clients : clients[a].username = last'.pkt.to}
               got == {a \in Peers3 : SentTo(sent', a, last'.pkt) > 0}
           IN  /\ got \subseteq named
               /\ Cardinality(got) = IF named = {} THEN 0 ELSE 1
               /\ \A a \in got : SentTo(sent', a, last'.pkt) = 1
               /\ private_messages' =
                     Append(private_messages,
                            [msg_id |-> UuidString(last'.pkt.id), sender |-> last'.pkt.from,
                             recipient |-> last'.pkt.to, message |-> last'.pkt.message,
                             timestamp |-> last'.pkt.timestamp]) ]_vars

\* C6 witness: a private message was persisted and reached one session,
\* while a third session, in the sender's channel, received nothing.
C6_Witness ==
    /\ last.pkt.kind = "PrivateMessage"
    /\ Len(private_messages) = 1
    /\ \E a \in DOMAIN clients \ {last.from} :
          /\ SentTo(sent, a, last.pkt) = 1
          /\ \E b \in DOMAIN clients \ {a, last.from} :
                /\ SentTo(sent, b, last.pkt) = 0
                /\ clients[b].is_authenticated
                /\ last.from \in DOMAIN clients
                /\ clients[b].current_channel = clients[last.from].current_channel

GlobalKinds == {"Reaction", "ProfileUpdate"}
\* how many ProfileUpdate datagrams the iteration sent to the address a
ProfileUpdatesTo(bag, a) ==
    LET ds == {d \in BagToSet(bag) : d.to = a /\ d.pkt.kind = "ProfileUpdate"}
    IN  IF ds = {} THEN 0
        ELSE IF \E d \in ds : ds = {d} THEN CopiesIn(CHOOSE d \in ds : TRUE, bag)
        ELSE 2

\* C8: a Reaction whose from is the authenticated sender's username is sent
\* once to every session of the registry and to no other address; so is the
\* ProfileUpdate of an authenticated session, carrying the session's
\* username; an unauthenticated sender's Reaction or ProfileUpdate is sent
\* to nobody.
C8_GlobalFanOut ==
    [][ /\ ( /\ last'.pkt.kind = "Reaction"
             /\ last'.from \in DOMAIN clients
             /\ clients[last'.from].is_authenticated
             /\ clients[last'.from].username = last'.pkt.from )
           => \A a \in Peers3 :
                 SentTo(sent', a, last'.pkt) = IF a \in DOMAIN clients THEN 1 ELSE 0
        /\ ( /\ last'.pkt.kind = "ProfileUpdate"
             /\ last'.from \in DOMAIN clients
             /\ clients[last'.from].is_authenticated )
           => \A a \in Peers3 :
                 /\ ProfileUpdatesTo(sent', a) = IF a \in DOMAIN clients THEN 1 ELSE 0
                 /\ a \in DOMAIN clients =>
                       SentTo(sent', a,
                              [last'.pkt EXCEPT !.username = clients[last'.from].username]) = 1
        /\ ( /\ last'.pkt.kind \in GlobalKinds
             /\ ~(last'.from \in DOMAIN clients /\ clients[last'.from].is_authenticated) )
           => \A d \in BagToSet(sent') : d.pkt.kind \notin GlobalKinds ]_vars

\* C8 witness: a Reaction reached three sessions, among them the sender, a
\* session in another channel and an unauthenticated session.
C8_Witness ==
    /\ last.pkt.kind = "Reaction"
    /\ last.from \in DOMAIN clients
    /\ SentTo(sent, last.from, last.pkt) = 1
    /\ \E a \in DOMAIN clients :
          /\ SentTo(sent, a, last.pkt) = 1
          /\ clients[a].is_authenticated
          /\ clients[a].current_channel # clients[last.from].current_channel
    /\ \E a \in DOMAIN clients :
          SentTo(sent, a, last.pkt) = 1 /\ ~clients[a].is_authenticated

\* C7: a FileStart and every FileChunk of a transfer are relayed by the same
\* policy: for a channel transfer (to is None) only to the other
\* authenticated sessions of the sender's channel, for a direct transfer only
\* to a session of the recipient's username.  A FileChunk carries no
\* recipient; its transfer is the PendingFile its id names.
C7_FileRelayFollowsPolicy ==
    [][\A addr \in Peers3 :
         (/\ last'.from = addr
          /\ last'.pkt.kind \in {"FileStart", "FileChunk"}
          /\ last'.pkt.kind = "FileChunk" => last'.pkt.id \in DOMAIN file_reassemblers)
         => LET to == IF last'.pkt.kind = "FileStart" THEN last'.pkt.to
                      ELSE file_reassemblers[last'.pkt.id].to
            IN  \A a \in Peers3 :
                   SentTo(sent', a, last'.pkt) > 0
                   => IF to = None
                      THEN /\ a \in DOMAIN clients \ {addr}
                           /\ clients[a].is_authenticated
                           /\ clients[a].current_channel = SenderChannel(clients, addr)
                      ELSE a \in DOMAIN clients /\ clients[a].username = to]_vars

\* the bytes of the file the sending app sent under the id
Original(id) ==
    {local_history[i].file_data[2] : i \in {j \in DOMAIN local_history : local_history[j].id = id}}
\* the entries of the receiving app's lists
AppEntries ==
    {app_chat[i] : i \in DOMAIN app_chat}
        \cup UNION {{app_dms[k][i] : i \in DOMAIN app_dms[k]} : k \in DOMAIN app_dms}

\* C9: whatever the order in which the FileChunk packets of a transfer arrive
\* after its FileStart, the bytes a completed reassembly yields are the bytes
\* of the file the sender split: those the server binds to the data column of
\* its INSERT, and those of the file_data of the entry the receiving app
\* pushes.
C9_ReassemblyEqualsPayload ==
    /\ \A i \in DOMAIN file_messages :
          Original(ParseUuid(file_messages[i].msg_id)) = {file_messages[i].data}
    /\ \A e \in AppEntries : Original(e.id) = {e.file_data[2]}

\* A file of MaxChunks chunks, the last one short, has been reassembled by the
\* server and by the receiving app, and the receiving app, handed the
\* transfer again, has taken the last chunk before the first.
C9_Witness ==
    /\ Len(local_history) = 1
    /\ TotalChunks(local_history[1].file_data[2]) = MaxChunks
    /\ Len(local_history[1].file_data[2]) % ChunkSize # 0
    /\ Len(file_messages) = 1
    /\ file_messages[1].data = local_history[1].file_data[2]
    /\ Len(app_chat) = 1
    /\ app_chat[1].file_data[2] = local_history[1].file_data[2]
    /\ "f1" \in DOMAIN pending_files
    /\ pending_files["f1"].chunks[MaxChunks] # NoChunk
    /\ pending_files["f1"].chunks[1] = NoChunk

\* the slots of a PendingFile that hold a chunk
FilledSlots(pending) == {i \in DOMAIN pending.chunks : pending.chunks[i] # NoChunk}
Counted(pending) ==
    /\ pending.received_count = Cardinality(FilledSlots(pending))
    /\ pending.received_count <= pending.total_chunks
    /\ Len(pending.chunks) = pending.total_chunks
\* from p to q an entry of a reassembler map was opened anew, or one empty
\* slot was filled and counted
Progress(p, q) ==
    \/ q = p
    \/ q.received_count = 0 /\ FilledSlots(q) = {}
    \/ \E i \in DOMAIN p.chunks :
          /\ p.chunks[i] = NoChunk
          /\ q.chunks[i] # NoChunk
          /\ q = [p EXCEPT !.chunks[i] = q.chunks[i], !.received_count = @ + 1]

\* C10: in the server's file_reassemblers and in the receiving app's
\* pending_files, received_count is always the number of filled slots and at
\* most total_chunks; a FileChunk the server receives for a pending transfer
\* whose index is not below total_chunks or whose slot is filled changes
\* neither map nor table, and no step of either reassembler changes a filled
\* slot or counts without filling an empty one.
C10_CountMatchesFilledSlots ==
    [][/\ \A id \in DOMAIN file_reassemblers' : Counted(file_reassemblers'[id])
       /\ \A id \in DOMAIN pending_files' : Counted(pending_files'[id])
       /\ (/\ last = Waiting
           /\ last'.pkt.kind = "FileChunk"
           /\ last'.pkt.id \in DOMAIN file_reassemblers
           /\ \/ last'.pkt.chunk_index >= file_reassemblers[last'.pkt.id].total_chunks
              \/ file_reassemblers[last'.pkt.id].chunks[last'.pkt.chunk_index + 1] # NoChunk)
          => /\ file_reassemblers' = file_reassemblers
             /\ file_messages' = file_messages
       /\ \A id \in DOMAIN file_reassemblers \cap DOMAIN file_reassemblers' :
             Progress(file_reassemblers[id], file_reassemblers'[id])
       /\ \A id \in DOMAIN pending_files \cap DOMAIN pending_files' :
             Progress(pending_files[id], pending_files'[id])]_vars

\* The server, holding a transfer with a chunk stored and a chunk missing,
\* has received from its authenticated sender a FileChunk whose index is not
\* below total_chunks.
C10_Witness ==
    /\ last.from = "a1"
    /\ last.pkt = StrayChunk
    /\ "a1" \in DOMAIN clients
    /\ clients["a1"].is_authenticated
    /\ "f1" \in DOMAIN file_reassemblers
    /\ file_reassemblers["f1"].received_count > 0
    /\ file_reassemblers["f1"].received_count < file_reassemblers["f1"].total_chunks

\* the number of entries of the receiving app's lists
AppEntryCount ==
    Len(app_chat)
        + Cardinality(UNION {{<<k, i>> : i \in DOMAIN app_dms[k]} : k \in DOMAIN app_dms})
\* the transfer id of the map m lacks exactly one chunk
OneMissing(m, id) ==
    /\ id \in DOMAIN m
    /\ m[id].received_count + 1 = m[id].total_chunks

\* C11: a transfer completes exactly at the step in which its last missing
\* index arrives.  At that step the server persists one file_messages row and
\* removes the transfer from file_reassemblers, and no other step adds a row;
\* at that step the receiving app pushes one entry and removes the transfer
\* from pending_files, and no other step adds an entry.
C11_CompletesOnceAtLastIndex ==
    [][/\ LET pkt == last'.pkt
              completing ==
                  /\ last = Waiting
                  /\ pkt.kind = "FileChunk"
                  /\ SenderAuthenticated(clients, last'.from)
                  /\ OneMissing(file_reassemblers, pkt.id)
                  /\ pkt.chunk_index < file_reassemblers[pkt.id].total_chunks
                  /\ file_reassemblers[pkt.id].chunks[pkt.chunk_index + 1] = NoChunk
          IN  IF completing
              THEN /\ Len(file_messages') = Len(file_messages) + 1
                   /\ pkt.id \notin DOMAIN file_reassemblers'
              ELSE file_messages' = file_messages
       /\ LET completing ==
                  /\ OneMissing(pending_files, "f1")
                  /\ pending_files' # pending_files
                  /\ ~ ("f1" \in DOMAIN pending_files'
                        /\ pending_files'["f1"].received_count = 0)
          IN  IF completing
              THEN /\ AppEntryCount' = AppEntryCount + 1
                   /\ "f1" \notin DOMAIN pending_files'
              ELSE AppEntryCount' = AppEntryCount]_vars

\* the history responses of the last iteration
Histories ==
    {d.pkt.history : d \in {e \in Sent : e.pkt.kind \in {"ChatHistory", "DirectHistory"}}}
\* the kinds of record that carry a timestamp
Timestamped == {"ChatMessage", "PrivateMessage", "FileMessage"}

\* C12: in the record list of every ChatHistory and DirectHistory response
\* the timestamps never decrease from one record that has a timestamp to a
\* later one (compared as the text they are, as String::cmp does).
C12_HistoryIsSortedByTimestamp ==
    \A h \in Histories :
       \A i \in DOMAIN h, j \in DOMAIN h :
          (i < j /\ h[i].kind \in Timestamped /\ h[j].kind \in Timestamped)
          => TsRank(h[i].timestamp) <= TsRank(h[j].timestamp)

\* A ChatHistory of two messages whose SELECT (ORDER BY id DESC) yields the
\* later timestamp first: the table holds 12:00 then 12:01, the response
\* lists 12:00 then 12:01.
C12_Witness ==
    /\ Len(chat_messages) = 2
    /\ chat_messages[1].timestamp = "12:00"
    /\ chat_messages[2].timestamp = "12:01"
    /\ \E h \in Histories :
          /\ last.pkt.kind = "RequestChatHistory"
          /\ Len(h) >= 2
          /\ h[Len(h) - 1].kind = "ChatMessage" /\ h[Len(h) - 1].timestamp = "12:00"
          /\ h[Len(h)].kind = "ChatMessage" /\ h[Len(h)].timestamp = "12:01"

\* C13: every ChatHistory and DirectHistory response holds at most Window
\* records in total, chat messages, file messages and reactions together.
C13_HistoryWithinWindow ==
    \A h \in Histories : Len(h) <= Window

\* C14: when the app has replayed a ChatHistory, every message of the
\* response that a persisted reaction names carries that reaction in the
\* app's list: the reacting user is listed under the emoji.
C14_ReplayCarriesReaction ==
    [][app_chat' # app_chat
       => \A h \in Histories :
             \A i \in DOMAIN h, k \in DOMAIN reactions :
                (/\ h[i].kind \in {"ChatMessage", "FileMessage"}
                 /\ ParseUuid(reactions[k].msg_id) = h[i].id)
                => \E n \in DOMAIN app_chat' :
                      /\ app_chat'[n].id = h[i].id
                      /\ reactions[k].emoji \in DOMAIN app_chat'[n].reactions
                      /\ \E m \in DOMAIN app_chat'[n].reactions[reactions[k].emoji] :
                            app_chat'[n].reactions[reactions[k].emoji][m]
                               = reactions[k].username]_vars

\* how many UsersUpdate datagrams of the bag go to the address a
SnapshotsTo(bag, a) ==
    LET S == {d \in BagToSet(bag) : d.to = a /\ d.pkt.kind = "UsersUpdate"}
        RECURSIVE Sum(_)
        Sum(T) == IF T = {} THEN 0
                  ELSE LET d == CHOOSE x \in T : TRUE
                       IN  CopiesIn(d, bag) + Sum(T \ {d})
    IN  Sum(S)

\* C15: in an iteration whose sweep removes a session idle for Timeout
\* seconds or more, the server sends exactly one UsersUpdate to every session
\* that remains and none to any other address; the snapshot lists, channel by
\* channel, the remaining authenticated sessions and nothing else, so a
\* removed session is not in it.
C15_SweepBroadcastsOnce ==
    [][LET removed == {a \in DOMAIN clients \ DOMAIN clients' :
                          clients[a].last_seen >= Timeout}
       IN  (last = Waiting /\ last' # Waiting /\ removed # {})
           => /\ \A a \in Peers2 :
                    SnapshotsTo(sent', a) = IF a \in DOMAIN clients' THEN 1 ELSE 0
              /\ \A d \in {e \in BagToSet(sent') : e.pkt.kind = "UsersUpdate"} :
                    \A e \in d.pkt.state :
                       /\ \A u \in BagToSet(e[2]) \cup {UserInfo(clients[a]) : a \in removed} :
                             CopiesIn(u, e[2]) =
                                Cardinality({a \in DOMAIN clients' :
                                                /\ clients'[a].is_authenticated
                                                /\ clients'[a].current_channel = e[1]
                                                /\ UserInfo(clients'[a]) = u})
                       /\ \A a \in removed :
                             (\A b \in DOMAIN clients' :
                                 clients'[b].username # clients[a].username)
                             => \A u \in BagToSet(e[2]) : u.username # clients[a].username]_vars

\* A Ping, whose arm asks for no broadcast, arrived from a2 when the session
\* at a1 had gone stale: a1 is gone and a2, authenticated, got a snapshot.
C15_Witness ==
    /\ last.from = "a2"
    /\ last.pkt.kind = "Ping"
    /\ DOMAIN clients = {"a2"}
    /\ clients["a2"].is_authenticated
    /\ SnapshotsTo(sent, "a2") = 1

GatedKinds == {"Audio", "TypingStatus", "ChatMessage", "FileStart", "FileChunk"}

\* C16: an Audio, TypingStatus, ChatMessage, FileStart or FileChunk packet
\* from an address that has no session, or whose session is not
\* authenticated, is sent on to no address, changes no table and leaves
\* file_reassemblers as it was.
C16_UnauthenticatedIsDropped ==
    [][(/\ last = Waiting
        /\ last'.pkt.kind \in GatedKinds
        /\ \/ last'.from \notin DOMAIN clients
           \/ ~clients[last'.from].is_authenticated)
       => /\ \A d \in BagToSet(sent') : d.pkt.kind = "UsersUpdate"
          /\ UNCHANGED <<users, channels, chat_messages, private_messages, reactions,
                         file_messages, file_reassemblers>>]_vars

\* The session at a1, not logged in, sent a FileChunk of a transfer that the
\* authenticated session at a2 has open: nothing was sent and the slot is
\* still empty.
C16_Witness ==
    /\ last.from = "a1"
    /\ last.pkt.kind = "FileChunk"
    /\ DOMAIN clients = {"a1", "a2"}
    /\ ~clients["a1"].is_authenticated
    /\ clients["a2"].is_authenticated
    /\ "f1" \in DOMAIN file_reassemblers
    /\ file_reassemblers["f1"].received_count = 0
    /\ sent = EmptyBag

\* C17: an AdminAction from an address without session, or from a session
\* whose role is not Admin, changes no account and no session: every session
\* that remains is as it was, a session is gone only if the sweep of that
\* iteration found it idle for Timeout seconds or more, and nothing is sent
\* but the UsersUpdate that follows such a sweep; with no idle session the
\* iteration sends nothing at all.
C17_NonAdminActionIsIgnored ==
    [][(/\ last = Waiting
        /\ last'.pkt.kind = "AdminAction"
        /\ \/ last'.from \notin DOMAIN clients
           \/ clients[last'.from].role # "Admin")
       => LET stale == {a \in DOMAIN clients : clients[a].last_seen >= Timeout}
          IN  /\ users' = users
              /\ DOMAIN clients' = DOMAIN clients \ stale
              /\ \A a \in DOMAIN clients' : clients'[a] = clients[a]
              /\ \A d \in BagToSet(sent') : d.pkt.kind = "UsersUpdate"
              /\ stale = {} => sent' = EmptyBag]_vars

\* bob, logged in at a2 with the role User, asked to ban alice, who is logged
\* in at a1: alice is still there, not banned, and nothing was sent.
C17_Witness ==
    /\ last.from = "a2"
    /\ last.pkt.kind = "AdminAction"
    /\ last.pkt.action = "Ban"
    /\ last.pkt.target = "alice"
    /\ DOMAIN clients = {"a1", "a2"}
    /\ clients["a2"].is_authenticated
    /\ clients["a2"].role = "User"
    /\ clients["a1"].username = "alice"
    /\ clients["a1"].is_authenticated
    /\ ~IsBanned("alice")
    /\ sent = EmptyBag

\* C18: once stop() was called and start() was not called again, a task at
\* the check at the top of its loop leaves the loop, a task that leaves the
\* loop sets is_connected to false, and is_connected does not go from false
\* to true.
C18_StopEndsTheSession ==
    [][/\ \A t \in Tasks :
             (stop_called /\ stop_called' /\ pc[t] = "top" /\ pc'[t] # "top")
             => pc'[t] = "exited"
       /\ \A t \in Tasks : (pc[t] = "exited" /\ pc'[t] = "done") => ~is_connected'
       /\ (stop_called /\ stop_called') => ~(~is_connected /\ is_connected')]_vars

\* how many Audio datagrams of the session are on the wire
AudioOnWire(w) == Len(SelectSeq(w, LAMBDA d : Decoded(d).kind = "Audio"))

\* C19: step 2 of an iteration goes on to send a frame only if it read
\* can_transmit as true; when it reads false, nothing is sent in that step
\* and a capture ring that holds a frame or more is emptied, so that less
\* than a frame is left; and an Audio datagram goes on the wire only in the
\* sending step of an iteration whose step 2 popped a frame.
C19_GatedAudioIsDiscarded ==
    [][/\ \A t \in Tasks :
             (pc[t] = "audio" /\ pc'[t] # "audio")
             => /\ pc'[t] = "emit" => (can_transmit /\ captured >= FrameLen)
                /\ ~can_transmit => /\ pc'[t] = "recv"
                                    /\ wire' = wire
                                    /\ captured' < FrameLen
                                    /\ captured >= FrameLen => captured' = 0
       /\ AudioOnWire(wire') > AudioOnWire(wire)
          => \E t \in Tasks : pc[t] = "emit" /\ gate[t] = "frame" /\ pc'[t] = "recv"
       /\ \A t \in Tasks : pc'[t] = "emit" => gate'[t] = "frame"]_vars

\* With transmission not permitted the task found a frame or more in the
\* capture ring and cleared it: the ring is empty and nothing is on the wire.
C19_Witness ==
    /\ pc["t1"] = "recv"
    /\ gate["t1"] = "cleared"
    /\ ~can_transmit
    /\ captured = 0
    /\ wire = <<>>

\* C20: a receive step that read a datagram, decoded it and found a packet
\* that is no Audio frame puts that packet, as it is, at the end of the
\* inbox.
C20_NonAudioReachesInbox ==
    [][\A t \in Tasks :
          (pc[t] = "recv" /\ pc'[t] = "top")
          => LET packet == Decoded(net_last'.dgram)
             IN  (packet # NoPacket /\ packet.kind # "Audio")
                 => inbox' = Append(inbox, packet)]_vars

\* C21: every packet the sending app has queued for a file, the FileStart and
\* each FileChunk, encodes to no more bytes than the server's receive buffer
\* holds.
C21_FilePacketsFitTheBuffer ==
    \A pkt \in outgoing : EncodedLen(pkt) <= RecvBufLen

\* C22: the iteration that receives a datagram which does not decode leaves
\* sessions, channels, accounts, the message tables and the reassembly slots
\* as they were and sends nothing; and the loop goes on to the next
\* recv_from.
C22_UndecodableChangesNothing ==
    /\ [][/\ (last = Waiting /\ last'.pkt.kind = "Malformed")
             => /\ UNCHANGED <<clients, channels, users, chat_messages, private_messages,
                               reactions, file_messages, file_reassemblers>>
                /\ sent' = EmptyBag
          /\ (last.pkt.kind = "Malformed" /\ last' # last) => last' = Waiting]_vars
    /\ [](last.pkt.kind = "Malformed" => ENABLED Loop)

\* A datagram that does not decode came from a2 while alice is logged in at
\* a1, idle for Timeout seconds, and has a transfer open: her session and
\* the slot are still there and nothing was sent.
C22_Witness ==
    /\ last.from = "a2"
    /\ last.pkt.kind = "Malformed"
    /\ "a1" \in DOMAIN clients
    /\ clients["a1"].is_authenticated
    /\ clients["a1"].last_seen >= Timeout
    /\ "f1" \in DOMAIN file_reassemblers
    /\ chat_messages # <<>>
    /\ sent = EmptyBag

\* C23: a Login with the password of a registered account that is not
\* banned, from an address that has a session, leaves that session
\* authenticated with the account's username, role, status and nick color,
\* and the iteration sends AuthResponse success=true and a UsersUpdate to
\* that address.
C23_LoginAuthenticates ==
    [][(/\ last = Waiting
        /\ last'.pkt.kind = "Login"
        /\ last'.from \in DOMAIN clients
        /\ HasUser(last'.pkt.username)
        /\ ~UserOf(last'.pkt.username).is_banned
        /\ Verify(last'.pkt.password, UserOf(last'.pkt.username).password_hash))
       => LET addr == last'.from
              row == UserOf(last'.pkt.username)
          IN  /\ addr \in DOMAIN clients'
              /\ clients'[addr].is_authenticated
              /\ clients'[addr].username = last'.pkt.username
              /\ clients'[addr].role = row.role
              /\ clients'[addr].status = row.status
              /\ clients'[addr].nick_color = row.nick_color
              /\ \E d \in BagToSet(sent') :
                    d.to = addr /\ d.pkt.kind = "AuthResponse" /\ d.pkt.success
              /\ \E d \in BagToSet(sent') : d.to = addr /\ d.pkt.kind = "UsersUpdate"]_vars

\* C24: after the iteration that receives a Handshake the sender's address
\* has a session that carries the packet's username, is not authenticated,
\* is in Lobby, has the role User, is not muted and was seen just now; and
\* every session that remains, the sender's included, is sent exactly one
\* UsersUpdate.
C24_HandshakeResetsTheSession ==
    [][(last = Waiting /\ last'.pkt.kind = "Handshake")
       => LET addr == last'.from
          IN  /\ addr \in DOMAIN clients'
              /\ clients'[addr].username = last'.pkt.username
              /\ ~clients'[addr].is_authenticated
              /\ clients'[addr].current_channel = "Lobby"
              /\ clients'[addr].last_seen = 0
              /\ clients'[addr].role = "User"
              /\ ~clients'[addr].is_muted
              /\ \A a \in Peers2 :
                    SnapshotsTo(sent', a) = IF a \in DOMAIN clients' THEN 1 ELSE 0]_vars

\* A Handshake came from a1 while two accounts exist and the second one is
\* logged in at a2: the session at a1 is unauthenticated and in Lobby, and
\* both sessions got one snapshot.
C24_Witness ==
    /\ last.from = "a1"
    /\ last.pkt.kind = "Handshake"
    /\ DOMAIN clients = {"a1", "a2"}
    /\ ~clients["a1"].is_authenticated
    /\ clients["a1"].current_channel = "Lobby"
    /\ clients["a2"].is_authenticated
    /\ clients["a2"].role = "User"
    /\ Len(users) = 2
    /\ SnapshotsTo(sent, "a1") = 1
    /\ SnapshotsTo(sent, "a2") = 1

\* C25: after the iteration that receives a Kick or a Ban of the target T
\* from a session whose role is Admin no session has the username T, every
\* session that remains is sent exactly one UsersUpdate and no member list
\* of it names T; a Ban sets is_banned in the rows of users whose username is
\* T and changes no other row, a Kick leaves users as it was; channels and
\* the message tables are unchanged by both.
C25_KickAndBanRemoveTheTarget ==
    [][(/\ last = Waiting
        /\ last'.pkt.kind = "AdminAction"
        /\ last'.pkt.action \in {"Kick", "Ban"}
        /\ last'.from \in DOMAIN clients
        /\ clients[last'.from].role = "Admin")
       => LET T == last'.pkt.target
          IN  /\ \A a \in DOMAIN clients' : clients'[a].username # T
              /\ \A a \in Peers2 :
                    SnapshotsTo(sent', a) = IF a \in DOMAIN clients' THEN 1 ELSE 0
              /\ \A d \in BagToSet(sent') :
                    d.pkt.kind = "UsersUpdate"
                    => \A e \in d.pkt.state : \A u \in BagToSet(e[2]) : u.username # T
              /\ Len(users') = Len(users)
              /\ \A i \in DOMAIN users :
                    users'[i] = IF last'.pkt.action = "Ban" /\ users[i].username = T
                                THEN [users[i] EXCEPT !.is_banned = TRUE]
                                ELSE users[i]
              /\ UNCHANGED <<channels, chat_messages, private_messages, reactions,
                             file_messages>>]_vars

\* alice, the Admin at a1, banned bob: bob's account is banned, the only
\* session left is hers and it got the snapshot.
C25_Witness ==
    /\ last.from = "a1"
    /\ last.pkt.kind = "AdminAction"
    /\ last.pkt.action = "Ban"
    /\ last.pkt.target = "bob"
    /\ DOMAIN clients = {"a1"}
    /\ clients["a1"].username = "alice"
    /\ clients["a1"].role = "Admin"
    /\ IsBanned("bob")
    /\ ~IsBanned("alice")
    /\ SnapshotsTo(sent, "a1") = 1

\* sessions the sweep of the next iteration removes
Stale == {a \in DOMAIN clients : clients[a].last_seen >= Timeout}

\* C26: in the iteration that receives JoinChannel(name) the sender's
\* current_channel becomes name exactly when the sender has an authenticated
\* session and name is in the channel set, and then every session that
\* remains is sent one UsersUpdate; the current_channel of every other
\* session, and in every other case that of every session, is as it was,
\* and in every other case nothing is sent unless the sweep removed a
\* session.
C26_JoinNeedsLoginAndChannel ==
    [][(last = Waiting /\ last'.pkt.kind = "JoinChannel")
       => LET addr == last'.from
              name == last'.pkt.name
              honored == /\ addr \in DOMAIN clients
                         /\ clients[addr].is_authenticated
                         /\ name \in channels
          IN  /\ \A a \in DOMAIN clients' :
                    clients'[a].current_channel =
                       IF a = addr /\ honored THEN name ELSE clients[a].current_channel
              /\ honored => /\ addr \in DOMAIN clients'
                            /\ \A a \in Peers2 :
                                  SnapshotsTo(sent', a) =
                                     IF a \in DOMAIN clients' THEN 1 ELSE 0
              /\ (~honored /\ Stale = {}) => sent' = EmptyBag
              /\ UNCHANGED channels]_vars

\* alice, logged in at a1 and in Lobby, asked to join Dev, which is no
\* channel: she is still in Lobby and nothing was sent.
C26_Witness ==
    /\ last.from = "a1"
    /\ last.pkt.kind = "JoinChannel"
    /\ last.pkt.name = "Dev"
    /\ "Dev" \notin channels
    /\ "a1" \in DOMAIN clients
    /\ clients["a1"].is_authenticated
    /\ clients["a1"].current_channel = "Lobby"
    /\ sent = EmptyBag

\* C27: in the iteration that receives CreateChannel(name) the channel set
\* gains name, and every session that remains is sent one UsersUpdate that
\* has an entry for name, exactly when the sender has an authenticated
\* session and name was not in the set; in every other case the channel set
\* is as it was and nothing is sent unless the sweep removed a session.
C27_CreateChannelIsIdempotent ==
    [][(last = Waiting /\ last'.pkt.kind = "CreateChannel")
       => LET addr == last'.from
              name == last'.pkt.name
              created == /\ addr \in DOMAIN clients
                         /\ clients[addr].is_authenticated
                         /\ name \notin channels
          IN  /\ channels' = IF created THEN channels \cup {name} ELSE channels
              /\ created => /\ \A a \in Peers2 :
                                  SnapshotsTo(sent', a) =
                                     IF a \in DOMAIN clients' THEN 1 ELSE 0
                            /\ \A d \in BagToSet(sent') :
                                  \E e \in d.pkt.state : e[1] = name
              /\ (~created /\ Stale = {}) => sent' = EmptyBag]_vars

\* alice, logged in at a1, asked to create Dev, which is a channel already:
\* nothing was sent.
C27_Witness ==
    /\ last.from = "a1"
    /\ last.pkt.kind = "CreateChannel"
    /\ last.pkt.name = "Dev"
    /\ "Dev" \in channels
    /\ "a1" \in DOMAIN clients
    /\ clients["a1"].is_authenticated
    /\ sent = EmptyBag

\* how many AuthResponse datagrams the bag holds for the address a
AuthResponsesTo(bag, a) ==
    LET S == {d \in BagToSet(bag) : d.to = a /\ d.pkt.kind = "AuthResponse"}
        RECURSIVE Sum(_)
        Sum(T) == IF T = {} THEN 0
                  ELSE LET d == CHOOSE x \in T : TRUE
                       IN  CopiesIn(d, bag) + Sum(T \ {d})
    IN  Sum(S)

\* C28: the iteration that receives a Register leaves the authenticated
\* flag, the channel, the role and the mute flag of every session that
\* remains as they were and adds no session; the sender is sent exactly one
\* AuthResponse and nobody else any; when the username has an account the
\* response has success=false and users is unchanged, otherwise it has
\* success=true and users gains one row.
C28_RegisterTouchesNoSession ==
    [][(last = Waiting /\ last'.pkt.kind = "Register")
       => LET addr == last'.from
              taken == HasUser(last'.pkt.username)
          IN  /\ \A a \in DOMAIN clients' :
                    /\ a \in DOMAIN clients
                    /\ clients'[a].is_authenticated = clients[a].is_authenticated
                    /\ clients'[a].current_channel = clients[a].current_channel
                    /\ clients'[a].role = clients[a].role
                    /\ clients'[a].is_muted = clients[a].is_muted
                    /\ clients'[a].username = clients[a].username
              /\ Stale = {} => DOMAIN clients' = DOMAIN clients
              /\ \A a \in Peers2 :
                    AuthResponsesTo(sent', a) = IF a = addr THEN 1 ELSE 0
              /\ \A d \in BagToSet(sent') :
                    d.pkt.kind = "AuthResponse" => d.pkt.success = ~taken
              /\ taken => users' = users
              /\ ~taken => /\ Len(users') = Len(users) + 1
                           /\ SubSeq(users', 1, Len(users)) = users
                           /\ users'[Len(users')].username = last'.pkt.username]_vars

\* alice has the only account and is logged in at a1 as the Admin; a
\* Register of alice came from a2: it was refused, users still has the one
\* row and her session is authenticated with the role Admin.
C28_Witness ==
    /\ last.from = "a2"
    /\ last.pkt.kind = "Register"
    /\ last.pkt.username = "alice"
    /\ Len(users) = 1
    /\ users[1].username = "alice"
    /\ "a1" \in DOMAIN clients
    /\ clients["a1"].is_authenticated
    /\ clients["a1"].role = "Admin"
    /\ \E d \in Sent : d.to = "a2" /\ d.pkt.kind = "AuthResponse" /\ ~d.pkt.success

\* a Login that names an account and carries another password than its own
WrongPassword(pkt) ==
    /\ pkt.kind = "Login"
    /\ HasUser(pkt.username)
    /\ ~Verify(pkt.password, UserOf(pkt.username).password_hash)
\* a Login that names a banned account
BannedLogin(pkt) ==
    /\ pkt.kind = "Login"
    /\ HasUser(pkt.username)
    /\ UserOf(pkt.username).is_banned
\* a JoinChannel that names no channel of the channel set
UnknownChannel(pkt) ==
    /\ pkt.kind = "JoinChannel"
    /\ pkt.name \notin channels

\* C29: the iteration that receives a Login with a wrong password, a Login
\* for a banned account, or a JoinChannel naming a channel that does not
\* exist from an authenticated session, sends the requester a packet that
\* carries a message.
C29_ErrorsAreAnswered ==
    [][(/\ last = Waiting
        /\ \/ WrongPassword(last'.pkt)
           \/ BannedLogin(last'.pkt)
           \/ /\ UnknownChannel(last'.pkt)
              /\ last'.from \in DOMAIN clients
              /\ clients[last'.from].is_authenticated)
       => \E d \in BagToSet(sent') :
             /\ d.to = last'.from
             /\ "message" \in DOMAIN d.pkt
             /\ d.pkt.message # ""]_vars

\* The two Login cases of C29 alone: each is answered with an AuthResponse
\* that has success=false and a message.
LoginErrorsAreAnswered ==
    [][(last = Waiting /\ (WrongPassword(last'.pkt) \/ BannedLogin(last'.pkt)))
       => \E d \in BagToSet(sent') :
             /\ d.to = last'.from
             /\ d.pkt.kind = "AuthResponse"
             /\ ~d.pkt.success
             /\ d.pkt.message # ""]_vars

\* the datagram is an Audio packet
IsAudio(d) == Decoded(d).kind = "Audio"

\* C30: the session sends an Audio packet only in step 2 of an iteration, as
\* the last datagram, and then none of the packets that waited in the
\* outgoing queue when the iteration's drain began is still waiting: they
\* were sent before it, in the order they were queued.  From the end of the
\* drain to the send of the frame no such packet waits either.
C30_QueuedPacketsGoFirst ==
    /\ [][/\ (Len(wire') > Len(wire) /\ IsAudio(wire'[Len(wire')]))
             => /\ pc["t1"] = "emit"
                /\ pc'["t1"] = "recv"
                /\ drain_left["t1"] = 0
                /\ wire' = Append(wire, Encoded(AudioPacket(AppSender)))
          /\ (pc["t1"] = "chat" /\ outbox'["t1"] # outbox["t1"] /\ wire' # wire)
             => /\ wire' = Append(wire, Encoded(Head(outbox["t1"])))
                /\ outbox'["t1"] = Tail(outbox["t1"])]_vars
    /\ [](/\ drain_left["t1"] <= Len(outbox["t1"])
          /\ pc["t1"] \in {"audio", "emit"} => drain_left["t1"] = 0)

\* The iteration sent a chat message and then its frame, and a typing status
\* the app queued after the drain had begun still waits.
C30_Witness ==
    /\ pc["t1"] = "recv"
    /\ gate["t1"] = "frame"
    /\ wire = <<Encoded(ChatPacket(AppSender)), Encoded(AudioPacket(AppSender))>>
    /\ outbox["t1"] = <<TypingPacket(AppSender)>>
    /\ drain_left["t1"] = 0

\* C33: every session whose role is Admin is authenticated; and the
\* iteration that receives an AdminAction from an address whose session is
\* not authenticated, or that has no session, changes no account and no
\* session: it only sweeps, and sends nothing unless the sweep removed a
\* session.
C33_AdminIsAuthenticated ==
    /\ [](\A a \in DOMAIN clients :
             clients[a].role = "Admin" => clients[a].is_authenticated)
    /\ [][(/\ last = Waiting
           /\ last'.pkt.kind = "AdminAction"
           /\ ~(last'.from \in DOMAIN clients /\ clients[last'.from].is_authenticated))
          => /\ users' = users
             /\ DOMAIN clients' = {a \in DOMAIN clients : clients[a].last_seen < Timeout}
             /\ \A a \in DOMAIN clients' : clients'[a] = clients[a]
             /\ Stale = {} => sent' = EmptyBag]_vars

\* alice has the Admin account and her address a1 has a session that only
\* shook hands; its Kick of bob, who is logged in at a2, changed nothing.
C33_Witness ==
    /\ last.from = "a1"
    /\ last.pkt.kind = "AdminAction"
    /\ last.pkt.action = "Kick"
    /\ last.pkt.target = "bob"
    /\ DOMAIN clients = {"a1", "a2"}
    /\ clients["a1"].username = "alice"
    /\ ~clients["a1"].is_authenticated
    /\ clients["a1"].role = "User"
    /\ HasUser("alice")
    /\ UserOf("alice").role = "Admin"
    /\ clients["a2"].username = "bob"
    /\ clients["a2"].is_authenticated
    /\ sent = EmptyBag

\* C34: when the iteration that receives a Login sends the sender an
\* AuthResponse with success=true, the sender's address has a session after
\* the iteration and that session is authenticated.
C34_SuccessMeansSession ==
    [][(/\ last = Waiting
        /\ last'.pkt.kind = "Login"
        /\ \E d \in BagToSet(sent') :
              d.to = last'.from /\ d.pkt.kind = "AuthResponse" /\ d.pkt.success)
       => /\ last'.from \in DOMAIN clients'
          /\ clients'[last'.from].is_authenticated]_vars

\* C35: every datagram by which the iteration that receives a PrivateMessage,
\* or a FileStart that names a recipient, passes the packet on goes to an
\* address whose session is authenticated.
C35_DirectTrafficNeedsLogin ==
    [][(/\ last = Waiting
        /\ last'.pkt.kind \in {"PrivateMessage", "FileStart"}
        /\ last'.pkt.to # None)
       => \A d \in BagToSet(sent') :
             d.pkt = last'.pkt
             => /\ d.to \in DOMAIN clients
                /\ clients[d.to].is_authenticated]_vars

\* C36: when the iteration that receives a ChatMessage adds a row to
\* chat_messages or passes the packet on, the sender's session is
\* authenticated and its username is the packet's username.
C36_ChatCarriesTheSendersName ==
    [][(/\ last = Waiting
        /\ last'.pkt.kind = "ChatMessage"
        /\ \/ chat_messages' # chat_messages
           \/ \E d \in BagToSet(sent') : d.pkt = last'.pkt)
       => /\ last'.from \in DOMAIN clients
          /\ clients[last'.from].is_authenticated
          /\ clients[last'.from].username = last'.pkt.username]_vars

\* C37: while an Admin's Mute of the user U that found a session of U at an
\* address stands, that is until an Admin's Unmute of U, the iteration that
\* receives a ChatMessage or an Audio packet from that address while its
\* session is named U passes the packet on to nobody.
C37_MuteHoldsUntilUnmute ==
    [][(/\ last = Waiting
        /\ last'.pkt.kind \in {"ChatMessage", "Audio"}
        /\ last'.from \in DOMAIN clients
        /\ <<last'.from, clients[last'.from].username>> \in mute_orders)
       => \A d \in BagToSet(sent') : d.pkt # last'.pkt]_vars

\* C38: the iteration that receives a packet that decodes from an address
\* that has a session leaves that session in the map, seen just now; only a
\* Kick or a Ban may remove the session that sent it.
C38_SendingKeepsTheSession ==
    [][(/\ last = Waiting
        /\ last'.pkt.kind # "Malformed"
        /\ ~(last'.pkt.kind = "AdminAction" /\ last'.pkt.action \in {"Kick", "Ban"})
        /\ last'.from \in DOMAIN clients)
       => /\ last'.from \in DOMAIN clients'
          /\ clients'[last'.from].last_seen = 0]_vars

\* every slot that is filled in the PendingFile before is filled with the
\* same chunk after, and as many chunks are counted
KeepsChunks(before, after) ==
    /\ after.received_count = before.received_count
    /\ DOMAIN after.chunks = DOMAIN before.chunks
    /\ \A i \in DOMAIN before.chunks : after.chunks[i] = before.chunks[i]

\* C40: the iteration of the server that receives a FileStart for an id that
\* has a PendingFile leaves the chunks and the received_count of that
\* PendingFile as they were; and so does the app when it takes a FileStart
\* for an id in pending_files, the one step of the app that leaves the
\* server and app_chat, app_dms and the queue of the sender alone.
C40_RepeatedStartKeepsChunks ==
    [][/\ (/\ last = Waiting
           /\ last'.pkt.kind = "FileStart"
           /\ last'.pkt.id \in DOMAIN file_reassemblers)
          => /\ last'.pkt.id \in DOMAIN file_reassemblers'
             /\ KeepsChunks(file_reassemblers[last'.pkt.id],
                            file_reassemblers'[last'.pkt.id])
       /\ (UNCHANGED <<server, outgoing, app_chat, app_dms, local_history>>)
          => \A id \in DOMAIN pending_files \cap DOMAIN pending_files' :
                \/ KeepsChunks(pending_files[id], pending_files'[id])
                \/ pending_files'[id].received_count > pending_files[id].received_count]_vars

\* how many members the entries of a snapshot list, all channels together
RECURSIVE ListedCount(_)
ListedCount(state) ==
    IF state = {} THEN 0
    ELSE LET e == CHOOSE x \in state : TRUE
         IN  BagCardinality(e[2]) + ListedCount(state \ {e})

\* C39: the current_channel of every session is in the channel set; and
\* every UsersUpdate the iteration sent has one entry per channel, lists each
\* authenticated session in the entry of its current_channel, and lists as
\* many members in all as there are authenticated sessions, so each is
\* listed once.
C39_SessionsAreInKnownChannels ==
    /\ \A a \in DOMAIN clients : clients[a].current_channel \in channels
    /\ \A d \in Snapshots :
          /\ {e[1] : e \in d.pkt.state} = channels
          /\ Cardinality(d.pkt.state) = Cardinality(channels)
          /\ \A a \in DOMAIN clients :
                clients[a].is_authenticated
                => \E e \in d.pkt.state :
                      /\ e[1] = clients[a].current_channel
                      /\ BagIn([username |-> clients[a].username, role |-> clients[a].role,
                                is_muted |-> clients[a].is_muted, status |-> clients[a].status,
                                nick_color |-> clients[a].nick_color], e[2])
          /\ ListedCount(d.pkt.state) =
                Cardinality({a \in DOMAIN clients : clients[a].is_authenticated})

\* alice is logged in at a1 and has joined Dev, a channel that was created;
\* bob is logged in at a2 and is in AFK; a snapshot was sent.
C39_Witness ==
    /\ DOMAIN clients = {"a1", "a2"}
    /\ clients["a1"].is_authenticated
    /\ clients["a2"].is_authenticated
    /\ clients["a1"].current_channel = "Dev"
    /\ clients["a2"].current_channel = "AFK"
    /\ channels = {"Lobby", "AFK", "Dev"}
    /\ Snapshots # {}

\* the statements of the iteration that send a datagram or call the store
IoPoints == {"insert", "relay", "broadcast"}
\* the locks of the session map, the channel set and the reassembly map
MapLocks == {"clients", "channels", "file_reassemblers"}

\* C31: when the iteration is at a statement that sends a datagram or calls
\* the persistence store, the server task holds none of the locks of the
\* session map, the channel set and the reassembly map.
C31_NoLockAcrossIo ==
    iter.at \in IoPoints => iter.held \cap MapLocks = {}

\* the first n elements of a sequence, all of it when it is shorter
Prefix(seq, n) == SubSeq(seq, 1, IF n < Len(seq) THEN n ELSE Len(seq))
\* a sequence without its first n elements
Drop(seq, n) == SubSeq(seq, (IF n < Len(seq) THEN n ELSE Len(seq)) + 1, Len(seq))
\* element i of a sequence, silence beyond its end
At(seq, i) == IF i <= Len(seq) THEN seq[i] ELSE 0

\* what a queue holds after the samples of data were pushed: what it held,
\* then the samples that found room, in order
AfterPush(ring, data) == ring \o Prefix(data, RingSlots - Len(ring))

\* C32: none of the three queues ever holds more than its capacity; a push
\* leaves the queued samples as they were and appends the new sample only
\* when there is room, so a full queue is unchanged by it; every sample of
\* the output buffer is the sum of the next sample of the local and of the
\* remote queue, 0 for a queue that is empty; and every callback, push and
\* pop can be taken in every state, whatever the queues hold.
C32_QueuesAreBoundedAndNeverWait ==
    /\ [](/\ Len(rings.input) <= RingSlots
          /\ Len(rings.local) <= RingSlots
          /\ Len(rings.remote) <= RingSlots
          /\ \A data \in Buffers : ENABLED InputCallback(data, FALSE, TRUE)
          /\ \A data \in Buffers : ENABLED RemotePush(data)
          /\ ENABLED OutputCallback(FALSE)
          /\ ENABLED FramePop(TRUE))
    /\ [][/\ rings'.op.kind \in {"input", "input and local"}
             => /\ rings'.input = AfterPush(rings.input, rings'.op.data)
                /\ rings'.local = IF rings'.op.kind = "input and local"
                                  THEN AfterPush(rings.local, rings'.op.data)
                                  ELSE rings.local
                /\ rings'.remote = rings.remote
          /\ rings'.op.kind = "remote"
             => /\ rings'.remote = AfterPush(rings.remote, rings'.op.data)
                /\ rings'.input = rings.input
                /\ rings'.local = rings.local
          /\ rings'.op.kind = "output"
             => /\ \A i \in 1..CallbackLen :
                      rings'.op.data[i] = At(rings.local, i) + At(rings.remote, i)
                /\ rings'.local = Drop(rings.local, CallbackLen)
                /\ rings'.remote = Drop(rings.remote, CallbackLen)
                /\ rings'.input = rings.input
          /\ rings'.op.kind = "frame"
             => /\ rings'.op.data = Prefix(rings.input, CallbackLen)
                /\ rings'.input = Drop(rings.input, CallbackLen)]_vars

\* The input queue held two samples and the callback brought 2 and 1: the
\* queue is full with 2 behind the two, and the 1 was discarded; the remote
\* queue is full too and the local one is empty.
C32_Witness ==
    /\ rings.op = [kind |-> "input", data |-> <<2, 1>>]
    /\ rings.input = <<1, 1, 2>>
    /\ rings.local = <<>>
    /\ Len(rings.remote) = RingSlots

====
